---- MODULE Spec2Model ----
(***************************************************************************)
(* FuzzingTool: the CLI controller (cli_controller.py) driving one target  *)
(* through its HTTP methods, and the worker pool of the Fuzzer it polls.   *)
(* The controller thread and the worker threads interleave step by step;   *)
(* the controller's callbacks run on the worker threads.                   *)
(***************************************************************************)
EXTENDS Naturals, Sequences, FiniteSets, TLC

\* ------------------------------------------------------------------ bounds
\* workers of the pool
MaxThreads == 2
\* requests of one target: len(dictionary) * len(requester.methods)
MaxRequests == 2
\* payloads of the dictionary that one worker drains once per method
MaxDrain == 2
\* entries of the wordlist handed to __build_dictionary
MaxWordlist == 5
\* -e options on the command line
MaxGroups == 3
\* encoders joined by ',' within one -e option
MaxChain == 2
\* largest body length, in bytes, of a result and of a length threshold
MaxLength == 2
\* largest RTT, in seconds, of a result and of a time threshold
MaxTime == 2
\* characters of the name of a wordlist given with -w
MaxName == 3
\* lines of the file given with --proxies
MaxProxies == 3
\* requests each worker makes through the proxies
MaxCalls == 2
\* items of a comma separated command line value
MaxItems == 3
\* header lines of a raw HTTP file
MaxHeaders == 2
\* pieces of a URL after its scheme
MaxUrl == 4
\* strings of a --prefix or --suffix list
MaxAffixes == 2

\* ------------------------------------------------------------ value sets
\* Statuses a response can carry: one the matcher allows, one it does not,
\* and the one the blacklist names when a blacklist is configured.
Statuses == {200, 404, 429}
BlacklistedStatus == {429}
\* PathFuzzing is URL discovery like SubdomainFuzzing and differs from it, for
\* the controller, only by raising no InvalidHostname: its runs are among
\* those of SubdomainFuzzing.
FuzzingTypes == {"SubdomainFuzzing", "DataFuzzing"}
BlacklistActions == {"none", "stop", "wait"}
WaitSteps == <<"pause", "wait_until_pause", "sleep", "resume">>
\* the payloads of a wordlist in which entries may repeat
DrainPayloads == {"a", "b"}
\* the entries a built wordlist is made of
WordlistEntries == {"a", "b", "c"}
\* the encoder plugins named on the command line
EncoderNames == {"b64", "url"}
\* an option that was not given (None), and one given with a value
None == <<>>
Some(value) == <<value>>
\* the statuses of the results handed to the matcher
MatchStatuses == {200, 401, 404}
\* --match-status as the user can give it: a list of statuses and at most
\* one range of them
MatchStatusArguments ==
    {[list |-> {404}, range |-> None],
     [list |-> {200}, range |-> Some(<<400, 404>>)]}
\* what stands between the commas of -Xc: a status code, or the two codes
\* around the dash of a range, as int() reads them
StatusItems ==
    {<<200>>, <<404>>, <<200, 204>>, <<404, 400>>, <<500, 500>>}
\* the values -Xc can be given: 1..MaxItems items
AllowedStatusArguments == UNION {[1..n -> StatusItems] : n \in 1..MaxItems}
\* the header lines of a raw HTTP file, as split(': ', 1) reads them
HeaderLines ==
    <<<<"Host", "test-url.com">>, <<"Cookie", "c=1">>, <<"Accept", "*/*">>>>
\* the blank line, and the line of the body
BlankLine == <<>>
BodyLine == <<"a=1">>
\* the lines readRaw returns: the request line as split(' ') reads it, the
\* header lines, then nothing, the blank line, or the blank line and a body
RawFiles ==
    {<<<<mth, "/", "HTTP/1.1">>>> \o SubSeq(HeaderLines, 1, k) \o ending :
        mth \in {"GET", "POST"}, k \in 0..MaxHeaders,
        ending \in {<<>>, <<BlankLine>>, <<BlankLine, BodyLine>>}}
\* raw wordlist entries, character by character
RawEntries == {<<"a", "b">>, <<"A", "b">>, <<"a", "B">>}
\* the strings --prefix and --suffix can list
PrefixStrings == <<(<<"p">>), <<"Q">>, <<"r">>>>
SuffixStrings == <<(<<"s">>), <<"T">>, <<"u">>>>
\* FUZZING_MARK
FuzzingMark == "$"
\* the pieces a URL is written with after its scheme: the mark, the dot, a
\* host name, the slash
UrlPieces == {FuzzingMark, ".", "test-url.com", "/"}
\* the URLs as strings: the scheme and 0..MaxUrl pieces
Urls ==
    {<<"https://">> \o rest : rest \in UNION {[1..n -> UrlPieces] : n \in 0..MaxUrl}}
\* the characters a wordlist name is made of
Chars == {"[", "]", ",", "a"}
\* the names -w can be given
WordlistNames == UNION {[1..n -> Chars] : n \in 0..MaxName}
\* the wordlist plugins of the registry
WordlistPlugins == {<<"a">>, <<"a", "a">>, <<"a", "a", "a">>}
\* Wordlist.__params__['metavar'] of each wordlist plugin
Metavar(name) ==
    IF name = <<"a">> THEN "TARGET_HOST"
    ELSE IF name = <<"a", "a">> THEN "TARGET_URL"
    ELSE "PATH"
\* the parameter of -w NAME=PARAM: not given, or given by the user
NoParams == [kind |-> "none"]
UserParams == [kind |-> "user"]
\* the target URLs: the place of the fuzzing mark in them
TargetUrls ==
    [scheme : {"https://"}, host : {"test-url.com"}, path : {"/"},
     mark : {"none", "path", "subdomain"}]
\* the proxy of --proxy and the lines of the --proxies file
SingleProxy == "10.0.0.0:8080"
ProxyLines == <<"10.0.0.1:8080", "10.0.0.2:8080", "10.0.0.3:8080",
                "10.0.0.4:8080">>
\* number of entries of a wordlist as its object reports it
WordlistLengths == {0, 1}
\* path fuzzing is URL discovery too
MatcherFuzzingTypes == FuzzingTypes \cup {"PathFuzzing"}

VARIABLES
    \* configuration, fixed by init()
    number_of_threads,  \* arguments.number_of_threads
    dictionary,         \* [wordlist: Seq, cursor: Nat]: the Dictionary
    methods,            \* len(requester.methods)
    fuzzing_type,       \* the requester's fuzzing type
    blacklist_action,   \* the BlacklistStatus action, "none" without blacklist
    verbose,            \* self.verbose[0]
    builded_wordlist,   \* the wordlist __build_wordlist returned
    is_unique,          \* arguments.unique
    dict_metadata,      \* self.dict_metadata: 'len' and, if unique, 'removed'
    arguments,          \* the CliArguments handed to init()
    encoders,           \* what Payloader.encoder.set_encoders was given
    matcher,            \* self.matcher: allowed statuses and comparator
    requester,          \* self.requester, None before __init_requesters
    wordlist_obj,       \* what WordlistFactory.creator made or raised
    rpc,                \* position of each worker inside requester.request
    rproxy,             \* the rotator position and proxy each worker picked
    used,               \* the proxies picked, in the order of picking
    lock,               \* self.lock: 0 when free, else the worker holding it
    lpc,                \* position of each worker inside the exception callback
    lcalls,             \* calls of the exception callback on each worker
    logger,             \* what logger.write has written, in order
    argv,               \* the command line of the CLIParser: the value of -Xc
    allowed_status,     \* what matcher.setAllowedStatus was given, else None
    include_200,        \* the answer to "include 200?": "not_asked", "yes", "no"
    http_header,        \* the dict __getHeader returned, None before the call
    header_list,        \* the deque headerList as __getHeader left it
    request,            \* what __getRequestFromRawHttp returned or raised
    test_url,           \* the URL string get_pure_url is called with
    pure_url,           \* what the calls of get_pure_url returned, in order
    payloader,          \* the Payloader: its prefix, suffix and case
    payloads,           \* a raw entry and the final payloads made of it
    \* main()
    init_error,         \* the exception init() raised, "None" if it returned
    connection,         \* how check_connection ended, "untested" before it
    interrupted,        \* the KeyboardInterrupt: "no", or what it met
    footer,             \* show_footer() has been called
    stops,              \* calls of fuzzer.stop()
    \* controller
    ctl,                \* position of the controller thread
    method,             \* number of the method being fuzzed (1..methods)
    ignore_errors,      \* self.ignore_errors
    stop_action,        \* self.stop_action: "None", "status" or "error"
    total_requests,     \* self.total_requests
    results,            \* self.results: indices of the appended Results
    progress,           \* the indices passed to co.progress_status, in order
    \* Result / Error index counter
    index,              \* Result.index
    \* fuzzer
    running,            \* Fuzzer.is_running()
    paused,             \* the pause flag
    stop_flag,          \* the stop flag
    in_flight,          \* the in-flight request counter
    wpc,                \* position of each worker
    witem,              \* the (index, method, pos) each worker reserved
    wstatus,            \* outcome of each worker's last request
    wsaw,               \* what is_paused() returned to the worker's wait callback
    wsteps,             \* steps the worker's current wait callback has done
    wcustom,            \* custom map of the tuple request() returned
    wactions,           \* blacklist action callbacks invoked for the response
    \* history
    dispatched,         \* (method, pos) in the order the payloads were reserved
    requested,          \* number of requests sent for each (method, pos)
    delivered,          \* the Results and Errors handed to the callbacks
    callbacks,          \* number of callbacks invoked by each method's pass
    resolved,           \* resolve_hostname calls for each (method, pos)
    sent,               \* HTTP requests performed for each (method, pos)
    trigger             \* the first call of the stop callback, and what followed

\* the arguments and what init() configures from them
argvars == <<arguments, encoders, requester, wordlist_obj>>
\* the workers inside the requester's proxy rotation
proxyvars == <<rpc, rproxy, used>>
\* what main() has met
mainvars == <<init_error, connection, interrupted, footer>>
\* the workers inside _request_exception_callback and the error log
logvars == <<lock, lpc, lcalls, logger>>
\* the state of what is exercised apart from a fuzzing run
\* the CLIParser and what it has parsed
parservars == <<argv, allowed_status, include_200, http_header, header_list,
               request>>
\* the URL handed to http_utils and what came back
urlvars == <<test_url, pure_url>>
\* the Payloader and what it was asked for
payloadvars == <<payloader, payloads>>
unitvars == <<logvars, parservars, urlvars, payloadvars>>
cfgvars == <<number_of_threads, methods, fuzzing_type, blacklist_action, verbose,
             builded_wordlist, is_unique, dict_metadata, argvars, mainvars,
             proxyvars, unitvars>>
ctlvars == <<ctl, method, ignore_errors, stop_action, total_requests, results,
             progress>>
fzvars == <<running, paused, stop_flag, in_flight>>
wvars == <<wpc, witem, wstatus, wsaw, wsteps, wcustom, wactions>>
histvars == <<dispatched, requested, delivered, callbacks, resolved, sent,
              trigger>>
vars == <<cfgvars, ctlvars, fzvars, wvars, histvars, dictionary, index,
         matcher, stops>>

Workers == 1..number_of_threads
NoItem == [index |-> 0, method |-> 0, pos |-> 0]
\* a Result's custom map before anything is attached to it
NoCustom == <<>>
\* no stop callback has been called yet
NoTrigger == [set |-> FALSE, index |-> 0, pending |-> 0, further |-> 0]

\* ---------------------------------------------------------------- helpers
\* len(self.dictionary)
DictLen == Len(dictionary.wordlist)

\* requester.is_url_discovery()
IsUrlDiscovery == fuzzing_type \in {"PathFuzzing", "SubdomainFuzzing"}

\* Dictionary.reload(): the cursor goes back to the first payload
Reload(d) == [d EXCEPT !.cursor = 0]

\* Matcher(...) that takes a threshold not given for a threshold of 0
MatcherZeroThresholds(match_status, match_length, match_time) ==
    [allowed_status |->
        IF match_status = None
          THEN [is_default |-> TRUE, list |-> {}, range |-> Some(<<200, 399>>)]
          ELSE [is_default |-> FALSE, list |-> match_status.list,
                range |-> match_status.range],
     comparator |->
        [length |-> IF match_length = None THEN Some(0) ELSE match_length,
         time |-> IF match_time = None THEN Some(0) ELSE match_time]]

\* Matcher(match_status, match_length, match_time): the allowed statuses
\* are the default 200-399 when none are given, the comparator holds the
\* two thresholds as they are given
Matcher(match_status, match_length, match_time) ==
    [allowed_status |->
        IF match_status = None
          THEN [is_default |-> TRUE, list |-> {}, range |-> Some(<<200, 399>>)]
          ELSE [is_default |-> FALSE, list |-> match_status.list,
                range |-> match_status.range],
     comparator |-> [length |-> match_length, time |-> match_time]]

\* matcher.set_allowed_status("200-399,401,403")
SetAllowedStatus(m) ==
    [m EXCEPT !.allowed_status =
        [is_default |-> FALSE, list |-> {401, 403},
         range |-> Some(<<200, 399>>)]]

\* __prepare_matcher that does not ask whether the statuses are the default
PrepareMatcherOverwrites(m) ==
    IF IsUrlDiscovery THEN SetAllowedStatus(m) ELSE m

\* __prepare_matcher
PrepareMatcher(m) ==
    IF IsUrlDiscovery /\ m.allowed_status.is_default
      THEN SetAllowedStatus(m)
      ELSE m

\* matcher.comparator_is_set(): at least one of the thresholds is set
ComparatorIsSet(m) ==
    m.comparator.length # None \/ m.comparator.time # None

\* the statuses in the matcher's list or within its closed range
AllowedSet(m) ==
    m.allowed_status.list
    \cup (IF m.allowed_status.range = None
           THEN {}
           ELSE m.allowed_status.range[1][1]..m.allowed_status.range[1][2])

\* Matcher.match(result): the status is allowed, and a threshold that is
\* set rejects the result whose body length, or RTT, is above it
MatchResult(m, result) ==
    /\ result.status \in AllowedSet(m)
    /\ ~(m.comparator.length # None
          /\ result.body_length > m.comparator.length[1])
    /\ ~(m.comparator.time # None /\ result.rtt > m.comparator.time[1])

\* the allowed statuses of the controller's matcher
AllowedStatus == AllowedSet(matcher)

\* Matcher.match with no comparator set
Match(status) == status \in AllowedStatus

\* `result.status in blacklist`, when a blacklist is configured
IsBlacklisted(status) ==
    blacklist_action # "none" /\ status \in BlacklistedStatus

\* prepare_target: len(self.dictionary) * len(self.requester.methods)
TotalRequestsOneMethod == DictLen

TotalRequests == DictLen * methods

\* Fuzzer.join(): true while some worker has not exited
JoinResult == \E w \in Workers : wpc[w] # "exit"

\* ------------------------------------------------------------------- Init
\* the controller's run state and the history, no Fuzzer built yet
InitFuzz ==
    /\ method = 0
    /\ ignore_errors = FALSE
    /\ stop_action = "None"
    /\ total_requests = 0
    /\ results = <<>>
    /\ progress = <<>>
    /\ index = 0
    /\ init_error = "None"
    /\ interrupted = "no"
    /\ footer = FALSE
    /\ stops = 0
    /\ rpc = [w \in 1..number_of_threads |-> "idle"]
    /\ rproxy = [w \in 1..number_of_threads |-> None]
    /\ used = <<>>
    /\ lock = 0
    /\ lpc = [w \in 1..number_of_threads |-> "idle"]
    /\ lcalls = [w \in 1..number_of_threads |-> 0]
    /\ logger = <<>>
    /\ allowed_status = None
    /\ include_200 = "not_asked"
    /\ http_header = None
    /\ header_list = <<>>
    /\ request = None
    /\ pure_url = <<>>
    /\ payloads = None
    /\ running = FALSE
    /\ paused = FALSE
    /\ stop_flag = FALSE
    /\ in_flight = 0
    /\ wpc = [w \in 1..number_of_threads |-> "idle"]
    /\ witem = [w \in 1..number_of_threads |-> NoItem]
    /\ wstatus = [w \in 1..number_of_threads |-> 0]
    /\ wsaw = [w \in 1..number_of_threads |-> "none"]
    /\ wsteps = [w \in 1..number_of_threads |-> <<>>]
    /\ wcustom = [w \in 1..number_of_threads |-> NoCustom]
    /\ wactions = [w \in 1..number_of_threads |-> <<>>]
    /\ dispatched = <<>>
    /\ requested = [m \in 1..methods, p \in 1..DictLen |-> 0]
    /\ delivered = {}
    /\ callbacks = [m \in 1..methods |-> 0]
    /\ resolved = [m \in 1..methods, p \in 1..DictLen |-> 0]
    /\ sent = [m \in 1..methods, p \in 1..DictLen |-> 0]
    /\ trigger = NoTrigger

\* command-line arguments that ask for nothing beyond the target
NoArguments ==
    [encoder |-> <<>>, match_status |-> None, match_length |-> None,
     match_time |-> None, scanner |-> FALSE, wordlist |-> <<>>,
     proxy |-> None, proxies |-> None, prefix |-> <<>>, suffix |-> <<>>,
     lowercase |-> FALSE, uppercase |-> FALSE, capitalize |-> FALSE]

\* a command line without the options of the CLIParser
NoArgv == [Xc |-> None, r |-> None]

\* the Payloader before it is configured: no prefix, no suffix, no case
NoPayloader == [prefix |-> <<>>, suffix |-> <<>>, case |-> "none"]

\* Payloader.encoder before set_encoders: no default encoder and no chain
NoEncoders == <<<<>>, <<>>>>

\* the requester of a target with no fuzzing mark in its URL
TargetRequester ==
    [url |-> [scheme |-> "https://", host |-> "test-url.com", path |-> "/",
              mark |-> "none"],
     proxy |-> None, proxies |-> <<>>, index |-> 0, lock |-> 0]

\* what init() configures, before init() has run
InitConfig ==
    /\ argv = NoArgv
    /\ payloader = NoPayloader
    /\ test_url = <<"https://">>
    /\ encoders = NoEncoders
    /\ wordlist_obj = None

\* what init() leaves: the dictionary built from a wordlist without asking
\* for uniqueness, the matcher of no match option
InitBuilt ==
    /\ arguments = NoArguments
    /\ requester = TargetRequester
    /\ InitConfig
    /\ matcher = Matcher(None, None, None)
    /\ builded_wordlist = dictionary.wordlist
    /\ is_unique = FALSE
    /\ dict_metadata = [len |-> DictLen]
    /\ InitFuzz

\* the controller before start(): init() has returned and the connection
\* to the target has been tested
InitRun ==
    /\ ctl = "start"
    /\ connection = "ok"
    /\ InitBuilt

\* the target and the options of a run
InitTarget ==
    /\ number_of_threads \in 1..MaxThreads
    /\ methods \in 1..MaxRequests
    /\ \E n \in 1..MaxRequests :
          /\ n * methods <= MaxRequests
          /\ dictionary = [wordlist |-> [i \in 1..n |-> i], cursor |-> 0]
    /\ fuzzing_type \in FuzzingTypes
    /\ blacklist_action \in BlacklistActions
    /\ verbose \in BOOLEAN

Init ==
    /\ InitTarget
    /\ InitRun

\* main() about to call init(), which leaves InitBuilt unless it raises
MainInit ==
    /\ InitTarget
    /\ ctl = "main"
    /\ connection = "untested"
    /\ InitBuilt

\* one worker and two methods over a dictionary of up to MaxDrain payloads,
\* equal ones allowed: every pass drains the dictionary in one thread
DrainInit ==
    /\ number_of_threads = 1
    /\ methods = 2
    /\ \E n \in 1..MaxDrain :
          \E wordlist \in [1..n -> DrainPayloads] :
              dictionary = [wordlist |-> wordlist, cursor |-> 0]
    /\ fuzzing_type \in FuzzingTypes
    /\ blacklist_action \in BlacklistActions
    /\ verbose = TRUE
    /\ InitRun

\* init() before __init_dictionary: self.dictionary = [] and
\* self.dict_metadata = [], the wordlist built and not empty
BuildInit ==
    /\ number_of_threads = 1
    /\ methods = 1
    /\ fuzzing_type = "DataFuzzing"
    /\ blacklist_action = "none"
    /\ verbose = FALSE
    /\ ctl = "init"
    /\ connection = "untested"
    /\ arguments = NoArguments
    /\ requester = TargetRequester
    /\ InitConfig
    /\ matcher = Matcher(None, None, None)
    /\ \E n \in 1..MaxWordlist : builded_wordlist \in [1..n -> WordlistEntries]
    /\ is_unique \in BOOLEAN
    /\ dictionary = [wordlist |-> <<>>, cursor |-> 0]
    /\ dict_metadata = <<>>
    /\ InitFuzz

\* init() with a target and nothing built yet: the state every part of
\* init() that is looked at on its own starts from
InitBench ==
    /\ connection = "untested"
    /\ number_of_threads = 1
    /\ methods = 1
    /\ blacklist_action = "none"
    /\ verbose = FALSE
    /\ builded_wordlist = <<>>
    /\ is_unique = FALSE
    /\ dictionary = [wordlist |-> <<>>, cursor |-> 0]
    /\ dict_metadata = <<>>
    /\ InitFuzz

\* one -e option: the encoders joined by ',' in it
EncoderGroups == UNION {[1..n -> EncoderNames] : n \in 1..MaxChain}

\* arguments.encoder: the -e options in the order of the command line
EncoderArguments == UNION {[1..n -> EncoderGroups] : n \in 0..MaxGroups}

\* __init_dictionary about to call __configure_payloader
EncoderInit ==
    /\ ctl = "configure_payloader"
    /\ arguments \in {[NoArguments EXCEPT !.encoder = encoder] :
                        encoder \in EncoderArguments}
    /\ InitConfig
    /\ fuzzing_type = "DataFuzzing"
    /\ matcher = Matcher(None, None, None)
    /\ requester = TargetRequester
    /\ InitBench


\* the lists --prefix and --suffix can give
PrefixArguments == {SubSeq(PrefixStrings, 1, n) : n \in 0..MaxAffixes}
SuffixArguments == {SubSeq(SuffixStrings, 1, n) : n \in 0..MaxAffixes}

\* __init_dictionary about to call __configure_payloader: the prefixes, the
\* suffixes, the case flags and at most one -e option
PayloaderInit ==
    /\ ctl = "configure_payloader"
    /\ \E prefix \in PrefixArguments, suffix \in SuffixArguments,
          lowercase \in BOOLEAN, uppercase \in BOOLEAN,
          capitalize \in BOOLEAN,
          encoder \in {<<>>} \cup {<<group>> : group \in EncoderGroups} :
          arguments = [NoArguments EXCEPT !.prefix = prefix,
                                          !.suffix = suffix,
                                          !.lowercase = lowercase,
                                          !.uppercase = uppercase,
                                          !.capitalize = capitalize,
                                          !.encoder = encoder]
    /\ InitConfig
    /\ fuzzing_type = "DataFuzzing"
    /\ matcher = Matcher(None, None, None)
    /\ requester = TargetRequester
    /\ InitBench


\* --match-length / --match-time as the user can give them, and what the
\* user can answer to __get_data_comparator: no threshold, or one
LengthThresholds == {None} \cup {Some(length) : length \in 0..MaxLength}
TimeThresholds == {None} \cup {Some(time) : time \in 0..MaxTime}

\* init() about to build the Matcher from the arguments
MatcherInit ==
    /\ ctl = "init_matcher"
    /\ \E match_status \in {None} \cup MatchStatusArguments,
          match_length \in LengthThresholds, match_time \in TimeThresholds,
          scanner \in BOOLEAN :
          arguments = [NoArguments EXCEPT !.match_status = match_status,
                                          !.match_length = match_length,
                                          !.match_time = match_time,
                                          !.scanner = scanner]
    /\ InitConfig
    /\ fuzzing_type \in MatcherFuzzingTypes
    /\ matcher = None
    /\ requester = TargetRequester
    /\ InitBench


\* __build_wordlist about to call WordlistFactory.creator for one -w: the
\* name, whether a parameter came with it, and the requester or None
CreatorInit ==
    /\ ctl = "build_wordlist"
    /\ \E name \in WordlistNames, params \in {NoParams, UserParams} :
          arguments = [NoArguments EXCEPT
                          !.wordlist = <<[name |-> name, params |-> params]>>]
    /\ requester \in {None} \cup {[TargetRequester EXCEPT !.url = url] :
                                     url \in TargetUrls}
    /\ InitConfig
    /\ fuzzing_type = "DataFuzzing"
    /\ matcher = Matcher(None, None, None)
    /\ InitBench


\* init() about to call __init_requesters: --proxy given or not, --proxies
\* a file of 0..MaxProxies lines or not given
ProxyInit ==
    /\ ctl = "init_requesters"
    /\ \E proxy \in {None, Some(SingleProxy)},
          proxies \in {None} \cup {Some(SubSeq(ProxyLines, 1, k)) :
                                      k \in 0..MaxProxies} :
          arguments = [NoArguments EXCEPT !.proxy = proxy,
                                          !.proxies = proxies]
    /\ requester = None
    /\ InitConfig
    /\ fuzzing_type = "DataFuzzing"
    /\ matcher = Matcher(None, None, None)
    /\ connection = "untested"
    /\ number_of_threads \in 1..MaxThreads
    /\ methods = 1
    /\ blacklist_action = "none"
    /\ verbose = FALSE
    /\ builded_wordlist = <<>>
    /\ is_unique = FALSE
    /\ dictionary = [wordlist |-> <<>>, cursor |-> 0]
    /\ dict_metadata = <<>>
    /\ InitFuzz


\* the CLIParser about to read a command line with -r and -Xc
ParserInit ==
    /\ ctl = "get_default_request"
    /\ \E value \in AllowedStatusArguments, file \in RawFiles :
          argv = [Xc |-> Some(value), r |-> Some(file)]
    /\ test_url = <<"https://">>
    /\ payloader = NoPayloader
    /\ arguments = NoArguments
    /\ requester = None
    /\ encoders = NoEncoders
    /\ wordlist_obj = None
    /\ fuzzing_type = "DataFuzzing"
    /\ matcher = Matcher(None, None, None)
    /\ connection = "untested"
    /\ number_of_threads = 1
    /\ methods = 1
    /\ blacklist_action = "none"
    /\ verbose = FALSE
    /\ builded_wordlist = <<>>
    /\ is_unique = FALSE
    /\ dictionary = [wordlist |-> <<>>, cursor |-> 0]
    /\ dict_metadata = <<>>
    /\ InitFuzz


\* a URL about to be handed to get_pure_url
UrlInit ==
    /\ ctl = "http_utils"
    /\ test_url \in Urls
    /\ payloader = NoPayloader
    /\ argv = NoArgv
    /\ arguments = NoArguments
    /\ requester = None
    /\ encoders = NoEncoders
    /\ wordlist_obj = None
    /\ fuzzing_type = "DataFuzzing"
    /\ matcher = Matcher(None, None, None)
    /\ connection = "untested"
    /\ number_of_threads = 1
    /\ methods = 1
    /\ blacklist_action = "none"
    /\ verbose = FALSE
    /\ builded_wordlist = <<>>
    /\ is_unique = FALSE
    /\ dictionary = [wordlist |-> <<>>, cursor |-> 0]
    /\ dict_metadata = <<>>
    /\ InitFuzz


\* ------------------------------------------------------------- controller
\* the elements of a list
Range(list) == {list[i] : i \in 1..Len(list)}

\* the lists a Dictionary can iterate a Python set in: every order of its
\* elements, each once
SetOrders(S) ==
    {list \in [1..Cardinality(S) -> S] : Range(list) = S}

\* __build_dictionary that keeps the wordlist as it is under is_unique
BuildDictionaryKeepsDuplicates ==
    /\ ctl = "init"
    /\ dictionary' = [wordlist |-> builded_wordlist, cursor |-> 0]
    /\ dict_metadata' =
          IF is_unique
            THEN [len |-> Len(builded_wordlist), removed |-> 0]
            ELSE [len |-> Len(builded_wordlist)]
    /\ ctl' = "start"
    /\ UNCHANGED <<number_of_threads, methods, fuzzing_type, blacklist_action,
                   verbose, builded_wordlist, is_unique, method, ignore_errors,
                   stop_action, total_requests, results, progress, fzvars,
                   wvars, histvars, index, argvars, matcher, mainvars,
                   stops, proxyvars, unitvars>>

\* __build_dictionary: with is_unique the built wordlist becomes a set, the
\* Dictionary is made of it and 'removed' is the difference of the lengths
BuildDictionary ==
    /\ ctl = "init"
    /\ LET previous_length == Len(builded_wordlist)
           atual_length == IF is_unique
                             THEN Cardinality(Range(builded_wordlist))
                             ELSE previous_length
       IN  /\ IF is_unique
                THEN \E list \in SetOrders(Range(builded_wordlist)) :
                        dictionary' = [wordlist |-> list, cursor |-> 0]
                ELSE dictionary' = [wordlist |-> builded_wordlist, cursor |-> 0]
           /\ dict_metadata' =
                 IF is_unique
                   THEN [len |-> atual_length,
                         removed |-> previous_length - atual_length]
                   ELSE [len |-> atual_length]
    /\ ctl' = "start"
    /\ UNCHANGED <<number_of_threads, methods, fuzzing_type, blacklist_action,
                   verbose, builded_wordlist, is_unique, method, ignore_errors,
                   stop_action, total_requests, results, progress, fzvars,
                   wvars, histvars, index, argvars, matcher, mainvars,
                   stops, proxyvars, unitvars>>

\* one turn of __build_encoders' loop that never opens a chain
AppendEncodersAllDefault(built, group) == <<built[1] \o group, built[2]>>

\* one turn of __build_encoders' loop: the encoders of a group of more than
\* one are appended to a list of their own, which is appended to
\* encoders_chain; the encoder of any other group goes to encoders_default
AppendEncoders(built, group) ==
    IF Len(group) > 1
      THEN <<built[1], Append(built[2], group)>>
      ELSE <<built[1] \o group, built[2]>>

\* __build_encoders for arguments.encoder not empty:
\* (encoders_default, encoders_chain) after the groups' loop
RECURSIVE BuildEncoders(_)
BuildEncoders(encoder) ==
    IF encoder = <<>>
      THEN <<<<>>, <<>>>>
      ELSE AppendEncoders(BuildEncoders(SubSeq(encoder, 1, Len(encoder) - 1)),
                          encoder[Len(encoder)])

\* __configure_payloader: the if / elif chain over lowercase, uppercase and
\* capitalize
CaseOf(args) ==
    IF args.lowercase THEN "lowercase"
    ELSE IF args.uppercase THEN "uppercase"
    ELSE IF args.capitalize THEN "capitalize"
    ELSE "none"

\* __configure_payloader: set_prefix, set_suffix, one of the cases;
\* __build_encoders returns None without -e, and set_encoders is called
\* only with what it returns otherwise
ConfigurePayloader ==
    /\ ctl = "configure_payloader"
    /\ payloader' = [prefix |-> arguments.prefix, suffix |-> arguments.suffix,
                     case |-> IF CaseOf(arguments) = "none"
                                THEN payloader.case ELSE CaseOf(arguments)]
    /\ encoders' = IF arguments.encoder = <<>>
                     THEN encoders
                     ELSE BuildEncoders(arguments.encoder)
    /\ ctl' = "configured"
    /\ UNCHANGED <<number_of_threads, methods, fuzzing_type, blacklist_action,
                   verbose, builded_wordlist, is_unique, dict_metadata,
                   arguments, requester, wordlist_obj, matcher, method,
                   ignore_errors, stop_action,
                   total_requests, results, progress, fzvars, wvars, histvars,
                   dictionary, index, mainvars, stops, proxyvars, logvars,
                   parservars, urlvars, payloads>>

\* the payloads the encoders make of one raw entry: the entry itself
\* without encoders, else one payload for each default encoder and one for
\* each chain, its encoders applied in order
Encode(raw) ==
    IF encoders = NoEncoders
      THEN <<[raw |-> raw, encoders |-> <<>>]>>
      ELSE [i \in 1..Len(encoders[1]) |->
                [raw |-> raw, encoders |-> <<encoders[1][i]>>]]
           \o [i \in 1..Len(encoders[2]) |->
                [raw |-> raw, encoders |-> encoders[2][i]]]


\* --------------------------------------------------------------- Payloader
\* what the calls of the Payloader leave alone
payloadframe ==
    <<number_of_threads, methods, fuzzing_type, blacklist_action, verbose,
      builded_wordlist, is_unique, dict_metadata, argvars, mainvars,
      proxyvars, logvars, parservars, urlvars, stops, matcher, method,
      ignore_errors, stop_action, total_requests, results, progress, fzvars,
      wvars, histvars, dictionary, index>>

\* str.lower() and str.upper() of one character
Lower(char) ==
    IF char = "A" THEN "a" ELSE IF char = "B" THEN "b" ELSE char

Upper(char) ==
    IF char = "a" THEN "A" ELSE IF char = "b" THEN "B" ELSE char

\* the case folding of the Payloader: lowercase, uppercase, capitalize (the
\* first character upper, the others lower) or none
ApplyCase(case, string) ==
    IF case = "lowercase" THEN [i \in 1..Len(string) |-> Lower(string[i])]
    ELSE IF case = "uppercase" THEN [i \in 1..Len(string) |-> Upper(string[i])]
    ELSE IF case = "capitalize"
      THEN [i \in 1..Len(string) |->
              IF i = 1 THEN Upper(string[i]) ELSE Lower(string[i])]
    ELSE string

\* prefix x {payload} x suffix with an empty list taken as it is: nothing
\* comes out of an empty prefix or suffix list
WrapEmptyProduct(prefix, string, suffix) ==
    [k \in 1..(Len(prefix) * Len(suffix)) |->
        prefix[((k - 1) \div Len(suffix)) + 1] \o string
          \o suffix[((k - 1) % Len(suffix)) + 1]]

\* prefix x {payload} x suffix, an empty list meaning no wrapping
Wrap(prefix, string, suffix) ==
    LET before == IF prefix = <<>> THEN <<(<<>>)>> ELSE prefix
        after == IF suffix = <<>> THEN <<(<<>>)>> ELSE suffix
    IN  [k \in 1..(Len(before) * Len(after)) |->
            before[((k - 1) \div Len(after)) + 1] \o string
              \o after[((k - 1) % Len(after)) + 1]]

\* the string a chain of encoders makes of a string, each encoder applied
\* to what the one before returned
RECURSIVE ApplyEncoders(_, _)
ApplyEncoders(chain, string) ==
    IF chain = <<>> THEN string
    ELSE ApplyEncoders(Tail(chain), <<Head(chain), "(">> \o string \o <<")">>)

\* the concatenation of lists
RECURSIVE Concat(_)
Concat(lists) ==
    IF lists = <<>> THEN <<>> ELSE Head(lists) \o Concat(Tail(lists))

\* the final payloads of one raw entry: case, then prefix and suffix, then
\* the encoders
FinalPayloads(raw) ==
    LET wrapped == Wrap(payloader.prefix, ApplyCase(payloader.case, raw),
                        payloader.suffix)
        encoded == Concat([k \in 1..Len(wrapped) |-> Encode(wrapped[k])])
    IN  [k \in 1..Len(encoded) |->
            ApplyEncoders(encoded[k].encoders, encoded[k].raw)]

\* the configured Payloader is asked for the payloads of a raw entry
GetPayloads ==
    /\ ctl = "configured"
    /\ \E raw \in RawEntries :
          payloads' = Some([raw |-> raw, final |-> FinalPayloads(raw)])
    /\ ctl' = "payloads"
    /\ UNCHANGED <<payloadframe, payloader>>


\* init(): self.matcher = Matcher(match_status, match_length, match_time)
InitMatcher ==
    /\ ctl = "init_matcher"
    /\ matcher' = Matcher(arguments.match_status, arguments.match_length,
                          arguments.match_time)
    /\ ctl' = "prepare_target"
    /\ UNCHANGED <<cfgvars, stops, method, ignore_errors, stop_action, total_requests,
                   results, progress, fzvars, wvars, histvars, dictionary,
                   index>>

\* __prepare_scanner asks for a data comparator: no scanner was given, the
\* target is data fuzzing and the matcher has no comparator yet
AsksDataComparator(m) ==
    /\ ~arguments.scanner
    /\ fuzzing_type = "DataFuzzing"
    /\ ~ComparatorIsSet(m)

\* matcher.set_comparator(length, time)
SetComparator(m, length, time) ==
    [m EXCEPT !.comparator = [length |-> length, time |-> time]]

\* prepare_target's __prepare_matcher and __prepare_scanner: the comparator
\* asked of the user is what __get_data_comparator returns, each threshold
\* None when the user answers no
PrepareTarget ==
    /\ ctl = "prepare_target"
    /\ LET prepared == PrepareMatcher(matcher)
       IN  IF AsksDataComparator(prepared)
             THEN \E length \in LengthThresholds, time \in TimeThresholds :
                     matcher' = SetComparator(prepared, length, time)
             ELSE matcher' = prepared
    /\ ctl' = "prepared"
    /\ UNCHANGED <<cfgvars, stops, method, ignore_errors, stop_action, total_requests,
                   results, progress, fzvars, wvars, histvars, dictionary,
                   index>>

\* prepare_target when the first request of __get_data_comparator raises:
\* StopActionInterrupt, the comparator is left unset
PrepareTargetFails ==
    /\ ctl = "prepare_target"
    /\ AsksDataComparator(PrepareMatcher(matcher))
    /\ matcher' = PrepareMatcher(matcher)
    /\ ctl' = "stopped"
    /\ UNCHANGED <<cfgvars, stops, method, ignore_errors, stop_action, total_requests,
                   results, progress, fzvars, wvars, histvars, dictionary,
                   index>>


\* Result.reset_index() that restarts the counter at one
ResetIndexOne == 0 + 1

\* Result.reset_index() of start()
ResetIndex == 0

\* start() up to the loop over the methods: reset_index, prepare_target.
\* check_ignore_errors: URL discovery ignores errors, otherwise the user answers.
\* __prepare_scanner sets no comparator here.
Start ==
    /\ ctl = "start"
    /\ index' = ResetIndex
    /\ \E answer \in BOOLEAN :
          ignore_errors' = (IsUrlDiscovery \/ answer)
    /\ results' = <<>>
    /\ stop_action' = "None"
    /\ matcher' = PrepareMatcher(matcher)
    /\ total_requests' = TotalRequests
    /\ method' = 1
    /\ ctl' = "prepare_fuzzer"
    /\ UNCHANGED <<cfgvars, stops, progress, fzvars, wvars, histvars, dictionary>>

\* prepare_target when __get_data_comparator's first request fails: the
\* StopActionInterrupt is caught by start() before any fuzzer exists.
StartFails ==
    /\ ctl = "start"
    /\ fuzzing_type = "DataFuzzing"
    /\ index' = ResetIndex
    /\ \E answer \in BOOLEAN : ignore_errors' = answer
    /\ results' = <<>>
    /\ stop_action' = "None"
    /\ matcher' = PrepareMatcher(matcher)
    /\ ctl' = "stopped"
    /\ UNCHANGED <<cfgvars, stops, method, total_requests, progress, fzvars, wvars,
                   histvars, dictionary>>

\* prepare_fuzzer that forgets dictionary.reload()
PrepareFuzzerNoReload ==
    /\ ctl = "prepare_fuzzer"
    /\ dictionary' = dictionary
    /\ running' = TRUE
    /\ paused' = FALSE
    /\ stop_flag' = FALSE
    /\ in_flight' = 0
    /\ wpc' = [w \in Workers |-> "check"]
    /\ witem' = [w \in Workers |-> NoItem]
    /\ wstatus' = [w \in Workers |-> 0]
    /\ wsaw' = [w \in Workers |-> "none"]
    /\ wsteps' = [w \in Workers |-> <<>>]
    /\ wcustom' = [w \in Workers |-> NoCustom]
    /\ wactions' = [w \in Workers |-> <<>>]
    /\ ctl' = "join"
    /\ UNCHANGED <<cfgvars, stops, matcher, method, ignore_errors, stop_action, total_requests,
                   results, progress, histvars, index>>

\* prepare_fuzzer that resets the index for each method
PrepareFuzzerResetsIndex ==
    /\ ctl = "prepare_fuzzer"
    /\ dictionary' = Reload(dictionary)
    /\ running' = TRUE
    /\ paused' = FALSE
    /\ stop_flag' = FALSE
    /\ in_flight' = 0
    /\ wpc' = [w \in Workers |-> "check"]
    /\ witem' = [w \in Workers |-> NoItem]
    /\ wstatus' = [w \in Workers |-> 0]
    /\ wsaw' = [w \in Workers |-> "none"]
    /\ wsteps' = [w \in Workers |-> <<>>]
    /\ wcustom' = [w \in Workers |-> NoCustom]
    /\ wactions' = [w \in Workers |-> <<>>]
    /\ ctl' = "join"
    /\ index' = ResetIndex
    /\ UNCHANGED <<cfgvars, stops, matcher, method, ignore_errors, stop_action, total_requests,
                   results, progress, histvars>>

\* prepare_fuzzer up to fuzzer.start(): reload the dictionary, build the
\* Fuzzer and start its workers.
PrepareFuzzer ==
    /\ ctl = "prepare_fuzzer"
    /\ dictionary' = Reload(dictionary)
    /\ running' = TRUE
    /\ paused' = FALSE
    /\ stop_flag' = FALSE
    /\ in_flight' = 0
    /\ wpc' = [w \in Workers |-> "check"]
    /\ witem' = [w \in Workers |-> NoItem]
    /\ wstatus' = [w \in Workers |-> 0]
    /\ wsaw' = [w \in Workers |-> "none"]
    /\ wsteps' = [w \in Workers |-> <<>>]
    /\ wcustom' = [w \in Workers |-> NoCustom]
    /\ wactions' = [w \in Workers |-> <<>>]
    /\ ctl' = "join"
    /\ UNCHANGED <<cfgvars, stops, matcher, method, ignore_errors, stop_action, total_requests,
                   results, progress, histvars, index>>

\* `while self.fuzzer.join():` - one evaluation of join()
Join ==
    /\ ctl = "join"
    /\ IF JoinResult
         THEN /\ ctl' = "join_check"
              /\ UNCHANGED <<method, running>>
         ELSE /\ running' = FALSE
              /\ IF method < methods
                   THEN method' = method + 1 /\ ctl' = "prepare_fuzzer"
                   ELSE method' = method /\ ctl' = "completed"
    /\ UNCHANGED <<cfgvars, stops, matcher, ignore_errors, stop_action, total_requests, results,
                   progress, paused, stop_flag, in_flight, wvars, histvars,
                   dictionary, index>>

\* `if self.stop_action: raise StopActionInterrupt(self.stop_action)`
JoinCheck ==
    /\ ctl = "join_check"
    /\ ctl' = IF stop_action # "None" THEN "interrupt" ELSE "join"
    /\ UNCHANGED <<cfgvars, stops, matcher, method, ignore_errors, stop_action, total_requests,
                   results, progress, fzvars, wvars, histvars, dictionary, index>>

\* start() whose fuzzer.stop() cancels the requests in flight: their workers
\* leave without delivering anything
InterruptDiscardsInFlight ==
    /\ ctl = "interrupt"
    /\ running' = FALSE
    /\ stop_flag' = TRUE
    /\ wpc' = [w \in Workers |->
                 IF wpc[w] \in {"resolve", "http", "request"}
                   THEN "exit" ELSE wpc[w]]
    /\ in_flight' = 0
    /\ stops' = stops + 1
    /\ ctl' = "stopped"
    /\ UNCHANGED <<cfgvars, matcher, method, ignore_errors, stop_action, total_requests,
                   results, progress, paused, witem, wstatus, wsaw, wsteps,
                   wcustom, wactions, histvars, dictionary, index>>

\* start() whose try is inside the loop over the methods: the interrupt
\* ends the pass of one method and the loop goes on with the next
InterruptNextMethod ==
    /\ ctl = "interrupt"
    /\ IF running
         THEN running' = FALSE /\ stop_flag' = TRUE /\ stops' = stops + 1
         ELSE UNCHANGED <<running, stop_flag, stops>>
    /\ IF method < methods
         THEN method' = method + 1 /\ ctl' = "prepare_fuzzer"
         ELSE method' = method /\ ctl' = "stopped"
    /\ UNCHANGED <<cfgvars, matcher, ignore_errors, stop_action, total_requests,
                   results, progress, paused, in_flight, wvars, histvars,
                   dictionary, index>>

\* start(): `except StopActionInterrupt`: stop the fuzzer if it is running
Interrupt ==
    /\ ctl = "interrupt"
    /\ IF running
         THEN running' = FALSE /\ stop_flag' = TRUE /\ stops' = stops + 1
         ELSE UNCHANGED <<running, stop_flag, stops>>
    /\ ctl' = "stopped"
    /\ UNCHANGED <<cfgvars, matcher, method, ignore_errors, stop_action, total_requests,
                   results, progress, paused, in_flight, wvars, histvars,
                   dictionary, index>>

\* ------------------------------------------------- WordlistFactory.creator
\* get_pure_url(url): the URL without the fuzzing mark
GetPureUrl(url) == [url EXCEPT !.mark = "none"]

\* get_host(url): what stands between the scheme and the path
GetHost(url) ==
    IF url.mark = "subdomain" THEN <<"$", url.host>> ELSE <<url.host>>

\* creator that takes the parameter from the target whatever the user gave
SubstituteParamsAlways(name, params, req) ==
    IF req # None /\ Metavar(name) \in {"TARGET_HOST", "TARGET_URL"}
      THEN IF Metavar(name) = "TARGET_HOST"
             THEN [kind |-> "host", value |-> GetHost(GetPureUrl(req.url))]
             ELSE [kind |-> "url", value |-> GetPureUrl(req.url)]
      ELSE params

\* the parameter a plugin is created with: the target's host or pure URL
\* when none was given, a requester is there and the plugin's metavar asks
\* for it
SubstituteParams(name, params, req) ==
    IF params = NoParams /\ req # None
       /\ Metavar(name) \in {"TARGET_HOST", "TARGET_URL"}
      THEN IF Metavar(name) = "TARGET_HOST"
             THEN [kind |-> "host", value |-> GetHost(GetPureUrl(req.url))]
             ELSE [kind |-> "url", value |-> GetPureUrl(req.url)]
      ELSE params

\* name.startswith('[') and name.endswith(']')
IsInlineList(name) ==
    Len(name) > 0 /\ name[1] = "[" /\ name[Len(name)] = "]"

\* the closing `if len(wordlist) == 0: raise Exception(...)` left out
RejectEmptyNever(length) == "None"

\* `if len(wordlist) == 0: raise Exception("The generated wordlist is empty")`
RejectEmpty(length) == IF length = 0 THEN "Exception" ELSE "None"

\* WordlistFactory.creator(name, params, requester): the wordlist made, or
\* what was raised. `missing` tells whether the class asked for a parameter
\* it did not get, `length` what len() of the wordlist made is.
Creator(name, params, req, missing, length) ==
    IF name \in WordlistPlugins
      THEN LET passed == SubstituteParams(name, params, req)
           IN  [kind |-> "plugin", params |-> passed, len |-> length,
                raised |-> IF missing /\ passed = NoParams
                             THEN "MissingParameter"
                             ELSE RejectEmpty(length)]
      ELSE [kind |-> IF IsInlineList(name) THEN "list" ELSE "file",
            params |-> NoParams, len |-> length,
            raised |-> IF missing THEN "Exception" ELSE RejectEmpty(length)]

\* __build_wordlist: wordlist_obj = WordlistFactory.creator(name, params,
\* requester) for the one -w given
CreateWordlist ==
    /\ ctl = "build_wordlist"
    /\ \E missing \in BOOLEAN, length \in WordlistLengths :
          wordlist_obj' = Creator(arguments.wordlist[1].name,
                                  arguments.wordlist[1].params, requester,
                                  missing, length)
    /\ ctl' = "created"
    /\ UNCHANGED <<number_of_threads, methods, fuzzing_type, blacklist_action,
                   verbose, builded_wordlist, is_unique, dict_metadata,
                   arguments, encoders, requester, mainvars, stops, matcher,
                   method, ignore_errors, stop_action, total_requests, results,
                   progress, fzvars, wvars, histvars, dictionary, index,
                   proxyvars, unitvars>>


\* --------------------------------------------------------------- requester
\* read_file(arguments.proxies): the lines of the file
ReadFile(file) == file[1]

\* __init_requesters: the requester is created with proxy=arguments.proxy
\* and proxies=read_file(arguments.proxies), [] when no file is given
InitRequesters ==
    /\ ctl = "init_requesters"
    /\ requester' = [TargetRequester EXCEPT
                        !.proxy = arguments.proxy,
                        !.proxies = IF arguments.proxies # None
                                      THEN ReadFile(arguments.proxies)
                                      ELSE <<>>]
    /\ ctl' = "requests"
    /\ UNCHANGED <<number_of_threads, methods, fuzzing_type, blacklist_action,
                   verbose, builded_wordlist, is_unique, dict_metadata,
                   arguments, encoders, wordlist_obj, mainvars, proxyvars,
                   unitvars,
                   stops, matcher, method, ignore_errors, stop_action,
                   total_requests, results, progress, fzvars, wvars, histvars,
                   dictionary, index>>

\* what the proxy actions leave alone
proxyframe ==
    <<number_of_threads, methods, fuzzing_type, blacklist_action, verbose,
      builded_wordlist, is_unique, dict_metadata, arguments, encoders,
      wordlist_obj, mainvars, stops, matcher, ctlvars, fzvars, wvars,
      histvars, dictionary, index, unitvars>>

\* requests worker w has begun
Calls(w) == Cardinality({i \in 1..Len(used) : used[i].worker = w})

\* request() with a single proxy configured: it is the proxy of the call,
\* whatever the list holds
PickSingle(w) ==
    /\ ctl = "requests" /\ rpc[w] = "idle" /\ Calls(w) < MaxCalls
    /\ requester.proxy # None
    /\ rproxy' = [rproxy EXCEPT ![w] = requester.proxy]
    /\ used' = Append(used, [worker |-> w, proxy |-> requester.proxy[1]])
    /\ rpc' = [rpc EXCEPT ![w] = "send"]
    /\ UNCHANGED <<proxyframe, requester>>

\* request() that enters the rotation without taking the mutex
AcquireNoLock(w) ==
    /\ ctl = "requests" /\ rpc[w] = "idle" /\ Calls(w) < MaxCalls
    /\ requester.proxy = None /\ requester.proxies # <<>>
    /\ requester' = [requester EXCEPT !.lock = w]
    /\ rpc' = [rpc EXCEPT ![w] = "locked"]
    /\ UNCHANGED <<proxyframe, rproxy, used>>

\* request() with a proxy list and no single proxy: take the rotator's mutex
Acquire(w) ==
    /\ ctl = "requests" /\ rpc[w] = "idle" /\ Calls(w) < MaxCalls
    /\ requester.proxy = None /\ requester.proxies # <<>>
    /\ requester.lock = 0
    /\ requester' = [requester EXCEPT !.lock = w]
    /\ rpc' = [rpc EXCEPT ![w] = "locked"]
    /\ UNCHANGED <<proxyframe, rproxy, used>>

\* under the mutex: the proxy at the rotator's position is the call's proxy
PickNext(w) ==
    /\ rpc[w] = "locked"
    /\ rproxy' = [rproxy EXCEPT ![w] = Some(requester.index)]
    /\ used' = Append(used, [worker |-> w,
                             proxy |-> requester.proxies[requester.index + 1]])
    /\ rpc' = [rpc EXCEPT ![w] = "picked"]
    /\ UNCHANGED <<proxyframe, requester>>

\* under the mutex: the rotator moves to the next position, round robin,
\* and the mutex is released
Advance(w) ==
    /\ rpc[w] = "picked"
    /\ requester' = [requester EXCEPT
                        !.index = (rproxy[w][1] + 1) % Len(requester.proxies),
                        !.lock = 0]
    /\ rpc' = [rpc EXCEPT ![w] = "send"]
    /\ UNCHANGED <<proxyframe, rproxy, used>>

\* the HTTP call through the proxy picked; the worker is back for its next
SendThrough(w) ==
    /\ rpc[w] = "send"
    /\ rproxy' = [rproxy EXCEPT ![w] = None]
    /\ rpc' = [rpc EXCEPT ![w] = "idle"]
    /\ UNCHANGED <<proxyframe, requester, used>>


\* --------------------------------------------------------------- CLIParser
\* what the steps of the CLIParser leave alone
parserframe ==
    <<number_of_threads, methods, fuzzing_type, blacklist_action, verbose,
      builded_wordlist, is_unique, dict_metadata, argvars, mainvars,
      proxyvars, logvars, urlvars, payloadvars, stops, matcher, method,
      ignore_errors,
      stop_action, total_requests, results, progress, fzvars, wvars, histvars,
      dictionary, index>>

\* __getAllowedStatus(status, allowedList, allowedRange): a code is appended
\* to the list; a range, its bounds swapped when given in reverse, replaces
\* the content of allowedRange
GetAllowedStatus(status, allowed) ==
    IF Len(status) = 1
      THEN [allowed EXCEPT !.List = Append(@, status[1])]
      ELSE LET codeLeft == IF status[2] < status[1] THEN status[2]
                                                    ELSE status[1]
               codeRight == IF status[2] < status[1] THEN status[1]
                                                     ELSE status[2]
           IN  [allowed EXCEPT !.Range = <<codeLeft, codeRight>>]

\* checkMatcher: the loop over allowedStatus.split(','), from empty list and
\* range
RECURSIVE ReadAllowedStatus(_)
ReadAllowedStatus(items) ==
    IF items = <<>>
      THEN [List |-> <<>>, Range |-> <<>>]
      ELSE GetAllowedStatus(items[Len(items)],
                            ReadAllowedStatus(SubSeq(items, 1, Len(items) - 1)))

\* the elements of a list
Elements(list) == {list[i] : i \in 1..Len(list)}

\* checkMatcher with -Xc: the statuses are read, the user is asked whether
\* to include 200 when the list lacks it, and the matcher gets the result
CheckMatcher ==
    /\ ctl = "check_matcher"
    /\ argv.Xc # None
    /\ LET read == ReadAllowedStatus(argv.Xc[1])
       IN  IF 200 \notin Elements(read.List)
             THEN \E answer \in BOOLEAN :
                     /\ include_200' = IF answer THEN "yes" ELSE "no"
                     /\ allowed_status' = Some(
                           IF answer
                             THEN [read EXCEPT !.List = <<200>> \o @]
                             ELSE read)
             ELSE /\ include_200' = "not_asked"
                  /\ allowed_status' = Some(read)
    /\ ctl' = "checked_matcher"
    /\ UNCHANGED <<parserframe, argv, http_header, header_list, request>>

\* the loop of __getHeader: i headers read of the argsLength lines that were
\* left after the first popleft, thisArg the line popped last
RECURSIVE HeaderLoop(_, _, _, _, _)
HeaderLoop(i, argsLength, thisArg, args, httpHeader) ==
    IF i < argsLength /\ thisArg # BlankLine
      THEN HeaderLoop(i + 1, argsLength, Head(args), Tail(args),
                      {h \in httpHeader : h[1] # thisArg[1]}
                        \cup {<<thisArg[1], thisArg[2]>>})
      ELSE [httpHeader |-> httpHeader, args |-> args, raised |-> "None"]

\* __getHeader(args): the dict of the header lines, and the deque as the
\* calls of popleft leave it; popleft on an empty deque raises IndexError
GetHeader(args) ==
    IF args = <<>>
      THEN [httpHeader |-> {}, args |-> args, raised |-> "IndexError"]
      ELSE HeaderLoop(0, Len(Tail(args)), Head(args), Tail(args), {})

\* httpHeader[key], None standing for KeyError
Lookup(httpHeader, key) ==
    IF \E h \in httpHeader : h[1] = key
      THEN Some((CHOOSE h \in httpHeader : h[1] = key)[2])
      ELSE None

\* __getRequestFromRawHttp: the request line is popped, __getHeader reads
\* the header, the URL is made of httpHeader['Host'], and with POST the next
\* line left in the deque is the body
GetRequestFromRawHttp ==
    /\ ctl = "get_default_request"
    /\ argv.r # None
    /\ LET headerList == argv.r[1]
           mth == Head(headerList)[1]
           got == GetHeader(Tail(headerList))
           host == Lookup(got.httpHeader, "Host")
       IN  IF got.raised # "None"
             THEN /\ request' = [kind |-> got.raised]
                  /\ UNCHANGED <<http_header, header_list>>
             ELSE /\ http_header' = Some(got.httpHeader)
                  /\ header_list' = got.args
                  /\ request' =
                        IF host = None
                          THEN [kind |-> "KeyError"]
                          ELSE [kind |-> "request", method |-> mth,
                                host |-> host[1],
                                POST |-> IF mth = "POST" /\ Len(got.args) > 0
                                           THEN Head(got.args) ELSE <<>>]
    /\ ctl' = "check_matcher"
    /\ UNCHANGED <<parserframe, argv, allowed_status, include_200>>


\* -------------------------------------------------------------- http_utils
\* what the calls of http_utils leave alone
urlframe ==
    <<number_of_threads, methods, fuzzing_type, blacklist_action, verbose,
      builded_wordlist, is_unique, dict_metadata, argvars, mainvars,
      proxyvars, logvars, parservars, payloadvars, stops, matcher, ctlvars,
      fzvars, wvars, histvars, dictionary, index>>

\* get_pure_url that removes the mark and leaves the dot after it
RECURSIVE get_pure_url_keeps_dot(_)
get_pure_url_keeps_dot(string) ==
    IF string = <<>> THEN <<>>
    ELSE IF Head(string) = FuzzingMark
      THEN get_pure_url_keeps_dot(Tail(string))
      ELSE <<Head(string)>> \o get_pure_url_keeps_dot(Tail(string))

\* get_pure_url(url): the URL without its fuzzing marks; the dot that
\* follows a mark goes with it
RECURSIVE get_pure_url(_)
get_pure_url(string) ==
    IF string = <<>> THEN <<>>
    ELSE IF Head(string) = FuzzingMark
      THEN IF Len(string) > 1 /\ string[2] = "."
             THEN get_pure_url(Tail(Tail(string)))
             ELSE get_pure_url(Tail(string))
      ELSE <<Head(string)>> \o get_pure_url(Tail(string))

\* a call of get_pure_url: on the URL first, then on what the call before
\* returned
CallGetPureUrl ==
    /\ ctl = "http_utils"
    /\ Len(pure_url) < MaxCalls
    /\ pure_url' = Append(pure_url,
          get_pure_url(IF pure_url = <<>> THEN test_url
                                          ELSE pure_url[Len(pure_url)]))
    /\ UNCHANGED <<urlframe, test_url>>


\* ------------------------------------------------------------------ main()
\* the exceptions init() raises that are FuzzingToolExceptions: no target,
\* an unknown plugin, a report extension not supported, an empty wordlist
FuzzingToolExceptions ==
    {"ControllerException", "InvalidPluginName", "ReportException"}

\* what init() can raise: WordlistFactory.creator raises a plain Exception
\* for a wordlist it generated empty, which nothing catches
InitErrors == FuzzingToolExceptions \cup {"Exception"}

\* co.error_box(msg) that returns to its caller
ErrorBoxReturns == "check_connection"

\* co.error_box(msg): the error is shown and the program exits
ErrorBox == "exit"

\* main(): init(arguments) returns
MainInitDone ==
    /\ ctl = "main"
    /\ ctl' = "check_connection"
    /\ UNCHANGED <<cfgvars, stops, matcher, method, ignore_errors, stop_action,
                   total_requests, results, progress, fzvars, wvars, histvars,
                   dictionary, index>>

\* main(): init(arguments) raises; `except FuzzingToolException` hands it
\* to error_box, any other exception leaves main()
MainInitRaises ==
    /\ ctl = "main"
    /\ \E error \in InitErrors :
          /\ init_error' = error
          /\ ctl' = IF error \in FuzzingToolExceptions
                      THEN ErrorBox
                      ELSE "raised"
    /\ UNCHANGED <<number_of_threads, methods, fuzzing_type, blacklist_action,
                   verbose, builded_wordlist, is_unique, dict_metadata,
                   argvars, connection, interrupted, footer, stops, matcher,
                   method, ignore_errors, stop_action, total_requests, results,
                   progress, fzvars, wvars, histvars, dictionary, index,
                   proxyvars, unitvars>>

\* check_connection that goes on whatever the user answers
CheckConnectionAlwaysContinues ==
    /\ ctl = "check_connection"
    /\ \E outcome \in {"ok", "accepted", "declined"} : connection' = outcome
    /\ ctl' = "start"
    /\ UNCHANGED <<number_of_threads, methods, fuzzing_type, blacklist_action,
                   verbose, builded_wordlist, is_unique, dict_metadata,
                   argvars, init_error, interrupted, footer, stops, matcher,
                   method, ignore_errors, stop_action, total_requests, results,
                   progress, fzvars, wvars, histvars, dictionary, index,
                   proxyvars, unitvars>>

\* check_connection: test_connection() returns, or raises RequestException
\* and the user is asked whether to continue; declining raises
\* ControllerException, which main() hands to error_box
CheckConnection ==
    /\ ctl = "check_connection"
    /\ \E raised \in BOOLEAN, answer \in BOOLEAN :
          /\ connection' = IF ~raised THEN "ok"
                           ELSE IF answer THEN "accepted" ELSE "declined"
          /\ ctl' = IF raised /\ ~answer THEN "error_box" ELSE "start"
    /\ UNCHANGED <<number_of_threads, methods, fuzzing_type, blacklist_action,
                   verbose, builded_wordlist, is_unique, dict_metadata,
                   argvars, init_error, interrupted, footer, stops, matcher,
                   method, ignore_errors, stop_action, total_requests, results,
                   progress, fzvars, wvars, histvars, dictionary, index,
                   proxyvars, unitvars>>

\* the positions of the controller thread within main()'s second try
MainTry ==
    {"check_connection", "start", "prepare_fuzzer", "join", "join_check",
     "interrupt"}

\* main()'s `except KeyboardInterrupt` that calls fuzzer.stop() without
\* asking whether a fuzzer is running
KeyboardInterruptAlwaysStops ==
    /\ ctl \in MainTry
    /\ interrupted = "no"
    /\ interrupted' = IF running THEN "running" ELSE "not_running"
    /\ running' = FALSE /\ stop_flag' = TRUE /\ stops' = stops + 1
    /\ ctl' = "aborted"
    /\ UNCHANGED <<number_of_threads, methods, fuzzing_type, blacklist_action,
                   verbose, builded_wordlist, is_unique, dict_metadata,
                   argvars, init_error, connection, footer, matcher, method,
                   ignore_errors, stop_action, total_requests, results,
                   progress, paused, in_flight, wvars, histvars, dictionary,
                   index, proxyvars, unitvars>>

\* a KeyboardInterrupt on the controller thread inside main()'s second try:
\* `if self.fuzzer and self.fuzzer.is_running(): self.fuzzer.stop()`
KeyboardInterrupt ==
    /\ ctl \in MainTry
    /\ interrupted = "no"
    /\ interrupted' = IF running THEN "running" ELSE "not_running"
    /\ IF running
         THEN running' = FALSE /\ stop_flag' = TRUE /\ stops' = stops + 1
         ELSE UNCHANGED <<running, stop_flag, stops>>
    /\ ctl' = "aborted"
    /\ UNCHANGED <<number_of_threads, methods, fuzzing_type, blacklist_action,
                   verbose, builded_wordlist, is_unique, dict_metadata,
                   argvars, init_error, connection, footer, matcher, method,
                   ignore_errors, stop_action, total_requests, results,
                   progress, paused, in_flight, wvars, histvars, dictionary,
                   index, proxyvars, unitvars>>

\* main()'s finally: show_footer() and "Test completed"; main() returns,
\* unless error_box is ending the program
ShowFooter ==
    /\ ctl \in {"completed", "stopped", "aborted", "error_box"}
    /\ footer' = TRUE
    /\ ctl' = IF ctl = "error_box" THEN ErrorBox ELSE "test_completed"
    /\ UNCHANGED <<number_of_threads, methods, fuzzing_type, blacklist_action,
                   verbose, builded_wordlist, is_unique, dict_metadata,
                   argvars, init_error, connection, interrupted, stops,
                   matcher, method, ignore_errors, stop_action, total_requests,
                   results, progress, fzvars, wvars, histvars, dictionary,
                   index, proxyvars, unitvars>>



\* ---------------------------------------------------------------- workers
\* steps 1-3 of the worker loop: leave on stop, block while paused, reserve
\* the next payload with its index under the dictionary mutex, leave when the
\* dictionary is exhausted.
ReserveIndex(idx) == idx

Checkpoint(w) ==
    /\ wpc[w] = "check"
    /\ stop_flag \/ ~paused
    /\ IF stop_flag \/ dictionary.cursor = DictLen
         THEN /\ wpc' = [wpc EXCEPT ![w] = "exit"]
              /\ UNCHANGED <<witem, dictionary, index, dispatched>>
         ELSE /\ wpc' = [wpc EXCEPT ![w] = "delay"]
              /\ witem' = [witem EXCEPT ![w] =
                    [index |-> ReserveIndex(index), method |-> method,
                     pos |-> dictionary.cursor + 1]]
              /\ dictionary' = [dictionary EXCEPT !.cursor = @ + 1]
              /\ index' = index + 1
              /\ dispatched' = Append(dispatched,
                    <<method, dictionary.cursor + 1>>)
    /\ UNCHANGED <<cfgvars, stops, matcher, ctlvars, fzvars, wstatus, wsaw, wsteps, wcustom,
                   wactions, requested, delivered, callbacks, resolved, sent,
                   trigger>>

\* the payload a worker holds
Payload(item) == dictionary.wordlist[item.pos]

\* steps 4-5: after the pace delay Requester.request(payload) is called and
\* the request is in flight. The SubdomainRequester resolves the hostname
\* first; the other requesters perform the HTTP request at once.
Send(w) ==
    /\ wpc[w] = "delay"
    /\ in_flight' = in_flight + 1
    /\ requested' = [requested EXCEPT ![witem[w].method, witem[w].pos] = @ + 1]
    /\ IF fuzzing_type = "SubdomainFuzzing"
         THEN /\ wpc' = [wpc EXCEPT ![w] = "resolve"]
              /\ UNCHANGED sent
         ELSE /\ wpc' = [wpc EXCEPT ![w] = "request"]
              /\ sent' = [sent EXCEPT ![witem[w].method, witem[w].pos] = @ + 1]
    /\ UNCHANGED <<cfgvars, stops, matcher, ctlvars, running, paused, stop_flag, witem, wstatus,
                   wsaw, wsteps, wcustom, wactions, dispatched, delivered,
                   callbacks, resolved, trigger, dictionary, index>>

\* socket.gethostbyname(hostname): the address of the injected host
ResolveHostname(payload) == <<"ip", payload>>

\* SubdomainRequester.request whose failed resolution is raised only after
\* the HTTP request was made
ResolveRaisesAfterRequest(w) ==
    /\ wpc[w] = "resolve"
    /\ resolved' = [resolved EXCEPT ![witem[w].method, witem[w].pos] = @ + 1]
    /\ sent' = [sent EXCEPT ![witem[w].method, witem[w].pos] = @ + 1]
    /\ wpc' = [wpc EXCEPT ![w] = "invalid_hostname_callback"]
    /\ in_flight' = in_flight - 1
    /\ UNCHANGED <<cfgvars, stops, matcher, ctlvars, running, paused, stop_flag, witem, wstatus,
                   wsaw, wsteps, wcustom, wactions, dispatched, requested,
                   delivered, callbacks, trigger, dictionary, index>>

\* SubdomainRequester.request: resolve_hostname of the injected host. It
\* returns the address, kept for the custom map, or raises InvalidHostname,
\* which ends the request.
Resolve(w) ==
    /\ wpc[w] = "resolve"
    /\ resolved' = [resolved EXCEPT ![witem[w].method, witem[w].pos] = @ + 1]
    /\ \/ /\ wcustom' = [wcustom EXCEPT ![w] =
                [ip |-> ResolveHostname(Payload(witem[w]))]]
          /\ wpc' = [wpc EXCEPT ![w] = "http"]
          /\ UNCHANGED in_flight
       \/ /\ wpc' = [wpc EXCEPT ![w] = "invalid_hostname_callback"]
          /\ in_flight' = in_flight - 1
          /\ UNCHANGED wcustom
    /\ UNCHANGED <<cfgvars, stops, matcher, ctlvars, running, paused, stop_flag, witem, wstatus,
                   wsaw, wsteps, wactions, dispatched, requested, delivered,
                   callbacks, sent, trigger, dictionary, index>>

\* SubdomainRequester.request: the HTTP request of the base Requester, made
\* with the payload once the hostname is resolved
HttpRequest(w) ==
    /\ wpc[w] = "http"
    /\ sent' = [sent EXCEPT ![witem[w].method, witem[w].pos] = @ + 1]
    /\ wpc' = [wpc EXCEPT ![w] = "request"]
    /\ UNCHANGED <<cfgvars, stops, matcher, ctlvars, fzvars, witem, wstatus, wsaw, wsteps,
                   wcustom, wactions, dispatched, requested, delivered,
                   callbacks, resolved, trigger, dictionary, index>>

\* end of step 5: the HTTP request returns a response or raises
Outcomes ==
    [kind : {"Response"},
     status : IF blacklist_action = "none"
                THEN Statuses \ BlacklistedStatus ELSE Statuses]
      \cup {[kind |-> "RequestException", status |-> 0]}

\* init(): action_callbacks handing every action to the stop callback
ActionCallbacksAllStop(action) == "stop_callback"

\* init(): action_callbacks = {'stop': _stop_callback, 'wait': _wait_callback}
ActionCallbacks(action) ==
    IF action = "stop" THEN "stop_callback" ELSE "wait_is_paused"

\* step 6 or 8: the worker goes to the callback of the blacklist action, to
\* the result callback or to the request exception callback
AfterResponse(out) ==
    IF out.kind = "RequestException" THEN "request_exception_callback"
    ELSE IF IsBlacklisted(out.status) THEN ActionCallbacks(blacklist_action)
    ELSE "result_callback"

\* the append_args decorator: the custom map of the tuple request() returned
\* is attached to the Result before inspect_result runs
AppendArgs(custom, returned) == returned

\* SubdomainScanner.inspect_result that empties the custom map
InspectResultClearsCustom(custom) == NoCustom

\* SubdomainScanner.inspect_result: `pass`
InspectResult(custom) == custom

Receive(w) ==
    /\ wpc[w] = "request"
    /\ \E out \in Outcomes :
          /\ wstatus' = [wstatus EXCEPT ![w] = out.status]
          /\ wpc' = [wpc EXCEPT ![w] = AfterResponse(out)]
          /\ wcustom' = [wcustom EXCEPT ![w] =
                IF out.kind = "Response"
                  THEN InspectResult(AppendArgs(NoCustom, wcustom[w]))
                  ELSE NoCustom]
    /\ in_flight' = in_flight - 1
    /\ wsaw' = [wsaw EXCEPT ![w] = "none"]
    /\ wsteps' = [wsteps EXCEPT ![w] = <<>>]
    /\ UNCHANGED <<cfgvars, stops, matcher, ctlvars, running, paused, stop_flag, witem,
                   wactions, histvars, dictionary, index>>

\* ----------------------------------------- controller callbacks (on workers)
\* the requests of the other workers that are begun and not finished when
\* worker w calls the stop callback: in flight, or reserved and not yet
\* sent, or answered and not yet handed to the result callback
Pending(w) ==
    Cardinality({v \in Workers \ {w} : wpc[v] \notin {"idle", "check", "exit"}})

\* _stop_callback
StopCallback(w) ==
    /\ wpc[w] = "stop_callback"
    /\ stop_action' = "status"
    /\ wpc' = [wpc EXCEPT ![w] = "result_callback"]
    /\ wactions' = [wactions EXCEPT ![w] = Append(@, "stop")]
    /\ trigger' = IF trigger.set THEN trigger
                    ELSE [set |-> TRUE, index |-> witem[w].index,
                          pending |-> Pending(w), further |-> 0]
    /\ UNCHANGED <<cfgvars, stops, matcher, ctl, method, ignore_errors, total_requests, results,
                   progress, fzvars, witem, wstatus, wsaw, wsteps, wcustom,
                   dispatched, requested, delivered, callbacks, resolved, sent,
                   dictionary, index>>

\* _wait_callback with the test inverted: `if self.fuzzer.is_paused():`
WaitIsPausedInverted(w) ==
    /\ wpc[w] = "wait_is_paused"
    /\ wsaw' = [wsaw EXCEPT ![w] = IF paused THEN "paused" ELSE "running"]
    /\ wpc' = [wpc EXCEPT ![w] =
          IF paused THEN "wait_pause" ELSE "result_callback"]
    /\ wactions' = [wactions EXCEPT ![w] = Append(@, "wait")]
    /\ UNCHANGED <<cfgvars, stops, matcher, ctlvars, fzvars, witem, wstatus, wsteps, wcustom,
                   histvars, dictionary, index>>

\* _wait_callback: `if not self.fuzzer.is_paused():`
WaitIsPaused(w) ==
    /\ wpc[w] = "wait_is_paused"
    /\ wsaw' = [wsaw EXCEPT ![w] = IF paused THEN "paused" ELSE "running"]
    /\ wpc' = [wpc EXCEPT ![w] =
          IF paused THEN "result_callback" ELSE "wait_pause"]
    /\ wactions' = [wactions EXCEPT ![w] = Append(@, "wait")]
    /\ UNCHANGED <<cfgvars, stops, matcher, ctlvars, fzvars, witem, wstatus, wsteps, wcustom,
                   histvars, dictionary, index>>

\* _wait_callback: self.fuzzer.pause()
WaitPause(w) ==
    /\ wpc[w] = "wait_pause"
    /\ paused' = TRUE
    /\ wsteps' = [wsteps EXCEPT ![w] = Append(@, "pause")]
    /\ wpc' = [wpc EXCEPT ![w] = "wait_until_pause"]
    /\ UNCHANGED <<cfgvars, stops, matcher, ctlvars, running, stop_flag, in_flight, witem,
                   wstatus, wsaw, wcustom, wactions, histvars, dictionary,
                   index>>

\* _wait_callback: self.fuzzer.wait_until_pause() returns
WaitUntilPause(w) ==
    /\ wpc[w] = "wait_until_pause"
    /\ in_flight = 0
    /\ wsteps' = [wsteps EXCEPT ![w] = Append(@, "wait_until_pause")]
    /\ wpc' = [wpc EXCEPT ![w] = "wait_sleep"]
    /\ UNCHANGED <<cfgvars, stops, matcher, ctlvars, fzvars, witem, wstatus, wsaw, wcustom,
                   wactions, histvars, dictionary, index>>

\* _wait_callback that returns after the sleep, without resume()
WaitSleepThenReturn(w) ==
    /\ wpc[w] = "wait_sleep"
    /\ wsteps' = [wsteps EXCEPT ![w] = Append(@, "sleep")]
    /\ wpc' = [wpc EXCEPT ![w] = "result_callback"]
    /\ UNCHANGED <<cfgvars, stops, matcher, ctlvars, fzvars, witem, wstatus, wsaw, wcustom,
                   wactions, histvars, dictionary, index>>

\* _wait_callback: time.sleep(self.blacklist_status.action_param)
WaitSleep(w) ==
    /\ wpc[w] = "wait_sleep"
    /\ wsteps' = [wsteps EXCEPT ![w] = Append(@, "sleep")]
    /\ wpc' = [wpc EXCEPT ![w] = "wait_resume"]
    /\ UNCHANGED <<cfgvars, stops, matcher, ctlvars, fzvars, witem, wstatus, wsaw, wcustom,
                   wactions, histvars, dictionary, index>>

\* _wait_callback whose resume() leaves the pause flag set
WaitResumeKeepsPaused(w) ==
    /\ wpc[w] = "wait_resume"
    /\ paused' = paused
    /\ wsteps' = [wsteps EXCEPT ![w] = Append(@, "resume")]
    /\ wpc' = [wpc EXCEPT ![w] = "result_callback"]
    /\ UNCHANGED <<cfgvars, stops, matcher, ctlvars, running, stop_flag, in_flight, witem,
                   wstatus, wsaw, wcustom, wactions, histvars, dictionary,
                   index>>

\* _wait_callback whose resume() also clears the stop flag
WaitResumeClearsStop(w) ==
    /\ wpc[w] = "wait_resume"
    /\ paused' = FALSE
    /\ stop_flag' = FALSE
    /\ wsteps' = [wsteps EXCEPT ![w] = Append(@, "resume")]
    /\ wpc' = [wpc EXCEPT ![w] = "result_callback"]
    /\ UNCHANGED <<cfgvars, stops, matcher, ctlvars, running, in_flight, witem, wstatus, wsaw,
                   wcustom, wactions, histvars, dictionary, index>>

\* _wait_callback: self.fuzzer.resume()
WaitResume(w) ==
    /\ wpc[w] = "wait_resume"
    /\ paused' = FALSE
    /\ wsteps' = [wsteps EXCEPT ![w] = Append(@, "resume")]
    /\ wpc' = [wpc EXCEPT ![w] = "result_callback"]
    /\ UNCHANGED <<cfgvars, stops, matcher, ctlvars, running, stop_flag, in_flight, witem,
                   wstatus, wsaw, wcustom, wactions, histvars, dictionary,
                   index>>

\* the Result or Error a worker hands to a callback
\* validate is the boolean handed to _result_callback with the Result
Item(w, kind) ==
    [kind |-> kind, index |-> witem[w].index, method |-> witem[w].method,
     pos |-> witem[w].pos, custom |-> wcustom[w],
     validate |-> (kind = "Result" /\ Match(wstatus[w]))]

\* co.progress_status(index, total_requests, payload)
ProgressStatus(seq, idx) == Append(seq, idx)

\* the callback returns and the worker goes back to the start of its loop
CallbackReturns(w, kind) ==
    /\ delivered' = delivered \cup {Item(w, kind)}
    /\ callbacks' = [callbacks EXCEPT ![witem[w].method] = @ + 1]
    /\ wpc' = [wpc EXCEPT ![w] = "check"]
    /\ witem' = [witem EXCEPT ![w] = NoItem]
    /\ wstatus' = [wstatus EXCEPT ![w] = 0]
    /\ wsaw' = [wsaw EXCEPT ![w] = "none"]
    /\ wsteps' = [wsteps EXCEPT ![w] = <<>>]
    /\ wcustom' = [wcustom EXCEPT ![w] = NoCustom]
    /\ wactions' = [wactions EXCEPT ![w] = <<>>]

\* _result_callback that appends the validated Result in the branch without
\* verbose mode only
ResultCallbackVerboseSkips(w) ==
    /\ wpc[w] = "result_callback"
    /\ results' = IF Match(wstatus[w]) /\ ~verbose
                    THEN Append(results, witem[w].index) ELSE results
    /\ progress' = IF verbose THEN progress
                              ELSE ProgressStatus(progress, witem[w].index)
    /\ trigger' = IF trigger.set /\ witem[w].index # trigger.index
                    THEN [trigger EXCEPT !.further = @ + 1] ELSE trigger
    /\ CallbackReturns(w, "Result")
    /\ UNCHANGED <<cfgvars, stops, matcher, ctl, method, ignore_errors, stop_action,
                   total_requests, fzvars, dispatched, requested, resolved,
                   sent, dictionary, index>>

\* _result_callback: append a validated Result, report the progress unless
\* verbose
ResultCallback(w) ==
    /\ wpc[w] = "result_callback"
    /\ results' = IF Match(wstatus[w])
                    THEN Append(results, witem[w].index) ELSE results
    /\ progress' = IF verbose THEN progress
                              ELSE ProgressStatus(progress, witem[w].index)
    /\ trigger' = IF trigger.set /\ witem[w].index # trigger.index
                    THEN [trigger EXCEPT !.further = @ + 1] ELSE trigger
    /\ CallbackReturns(w, "Result")
    /\ UNCHANGED <<cfgvars, stops, matcher, ctl, method, ignore_errors, stop_action,
                   total_requests, fzvars, dispatched, requested, resolved,
                   sent, dictionary, index>>

\* _request_exception_callback
RequestExceptionCallback(w) ==
    /\ wpc[w] = "request_exception_callback"
    /\ IF ignore_errors
         THEN /\ progress' = IF verbose THEN progress
                               ELSE ProgressStatus(progress, witem[w].index)
              /\ UNCHANGED stop_action
         ELSE /\ stop_action' = "error"
              /\ UNCHANGED progress
    /\ CallbackReturns(w, "RequestException")
    /\ UNCHANGED <<cfgvars, stops, matcher, ctl, method, ignore_errors, total_requests, results,
                   fzvars, dispatched, requested, resolved, sent, trigger,
                   dictionary, index>>

\* _invalid_hostname_callback that converts the error to a stop action, as
\* the request exception callback does without ignore_errors
InvalidHostnameCallbackStops(w) ==
    /\ wpc[w] = "invalid_hostname_callback"
    /\ stop_action' = "error"
    /\ CallbackReturns(w, "InvalidHostname")
    /\ UNCHANGED <<cfgvars, stops, matcher, ctl, method, ignore_errors, total_requests, results,
                   progress, fzvars, dispatched, requested, resolved, sent,
                   trigger, dictionary, index>>

\* _invalid_hostname_callback
InvalidHostnameCallback(w) ==
    /\ wpc[w] = "invalid_hostname_callback"
    /\ progress' = IF verbose THEN progress
                              ELSE ProgressStatus(progress, witem[w].index)
    /\ CallbackReturns(w, "InvalidHostname")
    /\ UNCHANGED <<cfgvars, stops, matcher, ctl, method, ignore_errors, stop_action,
                   total_requests, results, fzvars, dispatched, requested,
                   resolved, sent, trigger, dictionary, index>>

\* --------------------------------------- _request_exception_callback, by step
\* what the steps of the exception callback leave alone
logframe ==
    <<number_of_threads, methods, fuzzing_type, blacklist_action, verbose,
      builded_wordlist, is_unique, dict_metadata, argvars, mainvars,
      proxyvars, stops, matcher, ctl, method, ignore_errors, total_requests,
      results, fzvars, wvars, histvars, dictionary, index, parservars,
      urlvars, payloadvars>>

\* the errors handed to the callback so far, on workers 1..n
RECURSIVE CallsUpTo(_)
CallsUpTo(n) == IF n = 0 THEN 0 ELSE lcalls[n] + CallsUpTo(n - 1)

\* the Error whose callback worker w is running
Error(w) == [worker |-> w, call |-> lcalls[w]]

\* a worker of the running fuzzer calls _request_exception_callback(error): with ignore_errors the
\* progress is shown unless verbose and the worker goes on to the logger,
\* without it the error becomes the stop action
RequestExceptionEnter(w) ==
    /\ running /\ lpc[w] = "idle" /\ lcalls[w] < MaxCalls
    /\ lcalls' = [lcalls EXCEPT ![w] = @ + 1]
    /\ IF ignore_errors
         THEN /\ progress' = IF verbose THEN progress
                 ELSE ProgressStatus(progress, CallsUpTo(number_of_threads))
              /\ lpc' = [lpc EXCEPT ![w] = "with_lock"]
              /\ UNCHANGED stop_action
         ELSE /\ stop_action' = "error"
              /\ UNCHANGED <<progress, lpc>>
    /\ UNCHANGED <<logframe, lock, logger>>

\* `with self.lock:` entered without waiting for the lock
LockEnterNoWait(w) ==
    /\ lpc[w] = "with_lock"
    /\ lock' = w
    /\ lpc' = [lpc EXCEPT ![w] = "write"]
    /\ UNCHANGED <<logframe, stop_action, progress, lcalls, logger>>

\* `with self.lock:` - the worker blocks until the lock is free and takes it
LockEnter(w) ==
    /\ lpc[w] = "with_lock"
    /\ lock = 0
    /\ lock' = w
    /\ lpc' = [lpc EXCEPT ![w] = "write"]
    /\ UNCHANGED <<logframe, stop_action, progress, lcalls, logger>>

\* self.logger.write(str(error), error.payload): the entry is written, or
\* the write raises
LoggerWrite(w) ==
    /\ lpc[w] = "write"
    /\ \E raised \in BOOLEAN :
          logger' = IF raised THEN logger ELSE Append(logger, Error(w))
    /\ lpc' = [lpc EXCEPT ![w] = "exit_lock"]
    /\ UNCHANGED <<logframe, stop_action, progress, lcalls, lock>>

\* the end of the with block, reached by return or by exception: the lock
\* is released and the callback is left
LockExit(w) ==
    /\ lpc[w] = "exit_lock"
    /\ lock' = 0
    /\ lpc' = [lpc EXCEPT ![w] = "idle"]
    /\ UNCHANGED <<logframe, stop_action, progress, lcalls, logger>>

\* ------------------------------------------------------------------- Next
WorkerStep(w) ==
    \/ Checkpoint(w)
    \/ Send(w)
    \/ Resolve(w)
    \/ HttpRequest(w)
    \/ Receive(w)
    \/ StopCallback(w)
    \/ WaitIsPaused(w)
    \/ WaitPause(w)
    \/ WaitUntilPause(w)
    \/ WaitSleep(w)
    \/ WaitResume(w)
    \/ ResultCallback(w)
    \/ RequestExceptionCallback(w)
    \/ InvalidHostnameCallback(w)

ControllerStep ==
    \/ Start
    \/ StartFails
    \/ PrepareFuzzer
    \/ Join
    \/ JoinCheck
    \/ Interrupt

Next ==
    \/ Start
    \/ StartFails
    \/ PrepareFuzzer
    \/ Join
    \/ JoinCheck
    \/ Interrupt
    \/ \E w \in Workers : Checkpoint(w)
    \/ \E w \in Workers : Send(w)
    \/ \E w \in Workers : Resolve(w)
    \/ \E w \in Workers : HttpRequest(w)
    \/ \E w \in Workers : Receive(w)
    \/ \E w \in Workers : StopCallback(w)
    \/ \E w \in Workers : WaitIsPaused(w)
    \/ \E w \in Workers : WaitPause(w)
    \/ \E w \in Workers : WaitUntilPause(w)
    \/ \E w \in Workers : WaitSleep(w)
    \/ \E w \in Workers : WaitResume(w)
    \/ \E w \in Workers : ResultCallback(w)
    \/ \E w \in Workers : RequestExceptionCallback(w)
    \/ \E w \in Workers : InvalidHostnameCallback(w)

Spec == Init /\ [][Next]_vars

\* the same program on the dictionaries of DrainInit
DrainSpec == DrainInit /\ [][Next]_vars

\* init() building the dictionary
BuildNext == BuildDictionary

BuildSpec == BuildInit /\ [][BuildNext]_vars

\* __init_dictionary configuring the Payloader
EncoderNext == ConfigurePayloader

EncoderSpec == EncoderInit /\ [][EncoderNext]_vars


\* init() building the Matcher, prepare_target preparing it
MatcherNext ==
    \/ InitMatcher
    \/ PrepareTarget
    \/ PrepareTargetFails

MatcherSpec == MatcherInit /\ [][MatcherNext]_vars


\* main(): init(), check_connection(), start() and the finally, with the
\* workers of the fuzzers start() builds
MainNext ==
    \/ MainInitDone
    \/ MainInitRaises
    \/ CheckConnection
    \/ KeyboardInterrupt
    \/ ShowFooter
    \/ Next

MainSpec == MainInit /\ [][MainNext]_vars


\* the controller thread goes on to main()'s finally
MainLiveSpec == MainSpec /\ WF_vars(ShowFooter)


\* __build_wordlist creating the wordlist of one -w
CreatorNext == CreateWordlist

CreatorSpec == CreatorInit /\ [][CreatorNext]_vars


\* __init_requesters, then the workers' requests through the proxies
ProxyNext ==
    \/ InitRequesters
    \/ \E w \in Workers : PickSingle(w)
    \/ \E w \in Workers : Acquire(w)
    \/ \E w \in Workers : PickNext(w)
    \/ \E w \in Workers : Advance(w)
    \/ \E w \in Workers : SendThrough(w)

ProxySpec == ProxyInit /\ [][ProxyNext]_vars


\* start() up to fuzzer.start(), then the exception callback step by step
\* on the workers of the fuzzer
LogNext ==
    \/ Start
    \/ PrepareFuzzer
    \/ \E w \in Workers : RequestExceptionEnter(w)
    \/ \E w \in Workers : LockEnter(w)
    \/ \E w \in Workers : LoggerWrite(w)
    \/ \E w \in Workers : LockExit(w)

LogSpec == Init /\ [][LogNext]_vars



\* the CLIParser reading the default request, then the matcher options
ParserNext ==
    \/ GetRequestFromRawHttp
    \/ CheckMatcher

ParserSpec == ParserInit /\ [][ParserNext]_vars



\* get_pure_url called on a URL, and again on its result
UrlNext == CallGetPureUrl

UrlSpec == UrlInit /\ [][UrlNext]_vars



\* __configure_payloader, then the Payloader at work on a raw entry
PayloaderNext ==
    \/ ConfigurePayloader
    \/ GetPayloads

PayloaderSpec == PayloaderInit /\ [][PayloaderNext]_vars



\* The threads are scheduled fairly: the controller thread and every worker
\* thread eventually take a step that stays possible.
LiveSpec ==
    /\ Spec
    /\ WF_vars(ControllerStep)
    /\ \A w \in 1..MaxThreads : WF_vars(w \in Workers /\ WorkerStep(w))

\* ----------------------------------------------------------------- claims
\* workers holding a reserved payload whose callback has not returned yet
Busy == {w \in Workers : wpc[w] \notin {"idle", "check", "exit"}}

\* every worker of the pool has exited
AllExited == \A w \in Workers : wpc[w] = "exit"

\* the pass of method m was left by join() returning false
PassCompleted(m) == method > m \/ ctl = "completed"

\* the run is over: the controller has left start() and no worker is left
RunEnded == ctl \in {"completed", "stopped"} /\ AllExited

Max(S) == CHOOSE x \in S : \A y \in S : y <= x

ResultIndices == {r.index : r \in {d \in delivered : d.kind = "Result"}}
Errors == {d \in delivered : d.kind # "Result"}

\* C1: whenever the stop callback has set stop_action during a pass, the join
\* loop raises StopActionInterrupt: no pass is left as normally completed
\* (the next method prepared, or the target completed) with stop_action set
\* by the stop callback.
C1_StopIsAlwaysRaised ==
    (ctl \in {"prepare_fuzzer", "completed"}) => stop_action # "status"

\* C2: a wait callback that found the fuzzer running does pause,
\* wait_until_pause, sleep, resume in this order and each once (at every
\* point it has done exactly the steps before its position, and all four
\* when it returns); one that found the fuzzer paused does none of them.
C2_WaitCallbackOrder ==
    \A w \in Workers :
        /\ wsaw[w] = "paused" => wsteps[w] = <<>> /\ wpc[w] = "result_callback"
        /\ wsaw[w] = "none" => wsteps[w] = <<>>
        /\ wsaw[w] = "running" =>
              \/ wpc[w] = "wait_pause" /\ wsteps[w] = <<>>
              \/ wpc[w] = "wait_until_pause" /\ wsteps[w] = SubSeq(WaitSteps, 1, 1)
              \/ wpc[w] = "wait_sleep" /\ wsteps[w] = SubSeq(WaitSteps, 1, 2)
              \/ wpc[w] = "wait_resume" /\ wsteps[w] = SubSeq(WaitSteps, 1, 3)
              \/ wpc[w] = "result_callback" /\ wsteps[w] = WaitSteps

\* C2 witness: one callback has returned after its four steps while another
\* worker's callback, which found the fuzzer paused, has returned having
\* done none.
C2_Witness ==
    \E w, v \in Workers :
        /\ wsaw[w] = "running" /\ wpc[w] = "result_callback"
        /\ wsteps[w] = WaitSteps
        /\ wsaw[v] = "paused" /\ wpc[v] = "result_callback"

\* C3: under fair scheduling the blacklist wait is live for every number of
\* workers: a callback waiting in wait_until_pause gets its return, a
\* callback that has entered the sequence resumes the pool and returns, and,
\* when nothing can stop the run (the errors are ignored), every payload of
\* every method is processed and the run completes.
C3_WaitIsLive ==
    /\ \A w \in 1..MaxThreads :
          (w \in Workers /\ wpc[w] = "wait_until_pause")
             ~> (w \in Workers /\ wpc[w] = "wait_sleep")
    /\ \A w \in 1..MaxThreads :
          (w \in Workers /\ wpc[w] = "wait_pause")
             ~> (w \in Workers /\ wpc[w] = "result_callback"
                   /\ wsteps[w] = WaitSteps)
    /\ (blacklist_action = "wait" /\ ignore_errors
          /\ \E w \in Workers : wpc[w] = "wait_pause")
          ~> (ctl = "completed" /\ AllExited /\ ~paused
                /\ Cardinality(delivered) = total_requests)

\* C3 witness: two workers got a blacklisted status at about the same time,
\* and one is in wait_until_pause while the other's request is in flight.
C3_Witness ==
    \E w, v \in Workers :
        /\ wpc[w] = "wait_until_pause" /\ wpc[v] = "request"
        /\ blacklist_action = "wait" /\ in_flight = 1

\* C6: under fair scheduling every pass ends: the controller leaves its
\* `while fuzzer.join()` loop; join() returns true only while a worker has
\* not exited, and false only once all workers have exited, which without
\* stop is once the dictionary is exhausted.
C6_PassTerminates ==
    /\ (ctl \in {"join", "join_check"}) ~> (ctl \notin {"join", "join_check"})
    /\ [][(ctl = "join" /\ ctl' = "join_check") => ~AllExited]_vars
    /\ [][(ctl = "join" /\ ctl' \in {"prepare_fuzzer", "completed"})
            => AllExited /\ dictionary.cursor = DictLen]_vars

\* C6 witness: the first pass of a target with a blacklist wait has ended by
\* join() returning false after its workers exited, and the controller
\* prepares the next method.
C6_Witness ==
    /\ ctl = "prepare_fuzzer" /\ method = 2
    /\ blacklist_action = "wait" /\ AllExited
    /\ \E d \in delivered : d.method = 1

\* C4: from the return of wait_until_pause() to the call of resume() no
\* request is in flight (so none was in flight and none has been sent).
C4_QuietWhileWaiting ==
    \A w \in Workers :
        wpc[w] \in {"wait_sleep", "wait_resume"} => in_flight = 0

\* C5: no payload is reserved or requested twice, and a pass that completed
\* has requested each of the n payloads once and invoked n callbacks; a run
\* completed without stop action has done so for every method.
C5_EachPayloadOnce ==
    /\ \A i, j \in 1..Len(dispatched) : i # j => dispatched[i] # dispatched[j]
    /\ \A m \in 1..methods : \A p \in 1..DictLen : requested[m, p] <= 1
    /\ \A m \in 1..methods :
          PassCompleted(m) =>
              /\ \A p \in 1..DictLen : requested[m, p] = 1
              /\ callbacks[m] = DictLen

\* C5 witness: two workers have completed a run over two payloads without a
\* stop action, and then one callback per payload was invoked.
C5_Witness ==
    /\ ctl = "completed" /\ stop_action = "None"
    /\ number_of_threads = 2 /\ DictLen = 2
    /\ callbacks[1] = 2

C9_ProgressNonDecreasing ==
    \A i, j \in 1..Len(progress) : i < j => progress[i] <= progress[j]

C11_ErrorStopsIffNotIgnored ==
    /\ ignore_errors => stop_action # "error"
    /\ (~ignore_errors /\ \E d \in delivered : d.kind = "RequestException")
          => stop_action # "None"
    /\ (ctl \in {"prepare_fuzzer", "completed"}) => stop_action # "error"

\* C12: the invalid hostname callback leaves stop_action and the results
\* list as they are, in subdomain mode nothing but the blacklist stop action
\* ever interrupts the run, and under fair scheduling a run that had an
\* InvalidHostname and has no blacklist stop action completes normally with
\* every payload processed.
C12_InvalidHostnameNeverStops ==
    /\ [][\A w \in Workers :
            (wpc[w] = "invalid_hostname_callback"
               /\ wpc'[w] # "invalid_hostname_callback")
              => (stop_action' = stop_action /\ results' = results)]_vars
    /\ [](fuzzing_type = "SubdomainFuzzing" /\ ctl \in {"interrupt", "stopped"}
            => stop_action = "status")
    /\ (blacklist_action # "stop"
          /\ \E d \in delivered : d.kind = "InvalidHostname")
          ~> (ctl = "completed" /\ AllExited /\ stop_action = "None"
                /\ Cardinality(delivered) = total_requests)

\* C12 witness: a run is completed without stop action in which the first
\* payload's hostname was invalid and the payload after it gave a Result.
C12_Witness ==
    /\ ctl = "completed" /\ stop_action = "None"
    /\ \E e, r \in delivered :
          /\ e.kind = "InvalidHostname" /\ r.kind = "Result"
          /\ e.index < r.index

\* C13: in subdomain mode, once the host of a payload is resolved to X, the
\* tuple request() returns ends with the map {ip: X}, the Result built from
\* it carries it through inspect_result, and the Result delivered to the
\* result callback has custom ip = X.
C13_ResultCarriesIp ==
    fuzzing_type = "SubdomainFuzzing" =>
        /\ \A w \in Workers :
              wpc[w] \in {"http", "request", "stop_callback", "wait_is_paused",
                          "wait_pause", "wait_until_pause", "wait_sleep",
                          "wait_resume", "result_callback"}
                => wcustom[w] = [ip |-> ResolveHostname(Payload(witem[w]))]
        /\ \A d \in delivered :
              d.kind = "Result"
                => d.custom = [ip |-> ResolveHostname(dictionary.wordlist[d.pos])]

\* C13 witness: two payloads of a subdomain run gave Results, delivered with
\* the two different addresses their hosts resolved to.
C13_Witness ==
    /\ fuzzing_type = "SubdomainFuzzing"
    /\ \E d, e \in delivered :
          /\ d.kind = "Result" /\ e.kind = "Result" /\ d.pos # e.pos
          /\ d.custom = [ip |-> ResolveHostname(dictionary.wordlist[d.pos])]
          /\ e.custom = [ip |-> ResolveHostname(dictionary.wordlist[e.pos])]
          /\ d.custom # e.custom

\* C14: in subdomain mode request() resolves the hostname of a payload at
\* most once and performs the HTTP request at most once, never before the
\* resolution; a request whose HTTP request is out has both done once, a
\* payload that ended with InvalidHostname was resolved once and no HTTP
\* request was made for it, every other finished payload had one of each.
C14_ResolveOnceThenRequestOnce ==
    fuzzing_type = "SubdomainFuzzing" =>
        /\ \A m \in 1..methods : \A p \in 1..DictLen :
              /\ resolved[m, p] <= 1 /\ sent[m, p] <= 1
              /\ sent[m, p] <= resolved[m, p]
              /\ resolved[m, p] <= requested[m, p]
        /\ \A w \in Workers :
              wpc[w] = "request"
                => /\ resolved[witem[w].method, witem[w].pos] = 1
                   /\ sent[witem[w].method, witem[w].pos] = 1
        /\ \A d \in delivered :
              /\ resolved[d.method, d.pos] = 1
              /\ sent[d.method, d.pos] =
                    IF d.kind = "InvalidHostname" THEN 0 ELSE 1

\* C14 witness: one payload's resolution failed and no HTTP request was made
\* for it, the other payload was resolved and then requested.
C14_Witness ==
    /\ fuzzing_type = "SubdomainFuzzing"
    /\ \E d, e \in delivered :
          /\ d.kind = "InvalidHostname" /\ sent[d.method, d.pos] = 0
          /\ resolved[d.method, d.pos] = 1
          /\ e.kind = "Result" /\ sent[e.method, e.pos] = 1
          /\ resolved[e.method, e.pos] = 1

\* C15: after the first call of the stop callback, the Results delivered to
\* the result callback (the one that triggered it aside) are at most the
\* requests of the other workers that were begun and not finished at that
\* moment, which include all requests then in flight.
C15_FurtherResultsBounded ==
    trigger.set => trigger.further <= trigger.pending

\* C16: under fair scheduling, once stop() is called every worker exits and
\* every payload reserved before, the requests in flight among them, has
\* its Result or Error delivered; after stop() no worker reserves a payload.
C16_StopDrains ==
    /\ stop_flag ~> (AllExited /\ Cardinality(delivered) = index)
    /\ [][stop_flag => index' = index]_vars

\* C16 witness: stop() was called while one worker sleeps in its wait
\* callback, its own Result not yet delivered, and the other worker is
\* blocked on the pause condition.
C16_Witness ==
    /\ stop_flag /\ paused
    /\ \E w, v \in Workers :
          /\ wpc[w] = "wait_sleep"
          /\ wpc[v] = "check"

\* the state of the Fuzzer's lifecycle
FuzzerState ==
    IF \A w \in Workers : wpc[w] = "idle" THEN "Idle"
    ELSE IF AllExited THEN "Stopped"
    ELSE IF stop_flag THEN "Stopping"
    ELSE IF paused THEN "Paused"
    ELSE "Running"

LifecycleSteps ==
    {<<"Idle", "Running">>, <<"Running", "Paused">>, <<"Paused", "Running">>,
     <<"Running", "Stopping">>, <<"Paused", "Stopping">>,
     <<"Running", "Stopped">>, <<"Stopping", "Stopped">>}

\* C17: a Fuzzer changes state only along Idle -> Running,
\* Running <-> Paused, any -> Stopping, Running -> Stopped and
\* Stopping -> Stopped; the stop flag, once set, stays set whatever pause()
\* and resume() do later, and Stopped is left only by prepare_fuzzer
\* building the Fuzzer of the next method.
C17_Lifecycle ==
    /\ [][\/ FuzzerState' = FuzzerState
          \/ <<FuzzerState, FuzzerState'>> \in LifecycleSteps
          \/ /\ ctl = "prepare_fuzzer" /\ ctl' = "join"
             /\ FuzzerState = "Stopped" /\ FuzzerState' = "Running"]_vars
    /\ [][stop_flag => stop_flag']_vars

\* C17 witness: stop() was called while a wait callback was sleeping; the
\* callback is about to call resume() on the stopping fuzzer.
C17_Witness ==
    /\ stop_flag /\ paused /\ FuzzerState = "Stopping"
    /\ \E w \in Workers : wpc[w] = "wait_resume"

\* C18: when a response reaches the result callback, the action callback
\* configured in the blacklist has been invoked for it exactly once if its
\* status is blacklisted (the stop callback for stop, the wait callback for
\* wait) and no action callback otherwise; none is invoked for an Error.
C18_ActionCallbackOnce ==
    \A w \in Workers :
        /\ wpc[w] = "result_callback" =>
              wactions[w] =
                IF blacklist_action # "none" /\ wstatus[w] \in BlacklistedStatus
                  THEN <<blacklist_action>> ELSE <<>>
        /\ wpc[w] \in {"request_exception_callback",
                        "invalid_hostname_callback"} => wactions[w] = <<>>
        /\ Len(wactions[w]) <= 1

\* C18 witness: one worker is at the result callback with a blacklisted
\* status after the wait callback was invoked once, another with a status
\* that is not blacklisted and no action callback invoked.
C18_Witness ==
    \E w, v \in Workers :
        /\ wpc[w] = "result_callback" /\ wstatus[w] \in BlacklistedStatus
        /\ wactions[w] = <<"wait">>
        /\ wpc[v] = "result_callback" /\ wstatus[v] \notin BlacklistedStatus
        /\ wactions[v] = <<>>

\* the payloads reserved during the pass of method m, in order
Drain(m) ==
    LET pass == SelectSeq(dispatched, LAMBDA e : e[1] = m)
    IN  [i \in 1..Len(pass) |-> dictionary.wordlist[pass[i][2]]]

\* C19: prepare_fuzzer leaves the dictionary reloaded before the workers of
\* each method start, and the drain of every completed pass is the wordlist
\* itself, so the same sequence (elements, order, length) as the first drain.
C19_ReloadedDrainIsSame ==
    /\ [][(ctl = "prepare_fuzzer" /\ ctl' = "join")
            => dictionary'.cursor = 0]_vars
    /\ [](\A m \in 1..methods :
            PassCompleted(m) =>
                /\ Drain(m) = dictionary.wordlist
                /\ Drain(m) = Drain(1))

\* C19 witness: both methods' passes are completed over a wordlist of two
\* different payloads, the second of them first in the alphabet, and the
\* second drain equals the first.
C19_Witness ==
    /\ ctl = "completed" /\ methods = 2 /\ DictLen = 2
    /\ dictionary.wordlist = <<"b", "a">>
    /\ Len(Drain(2)) = 2 /\ Drain(2) = Drain(1)

\* C20: with uniqueness on, the built dictionary holds each distinct entry
\* of the wordlist exactly once, dict_metadata['len'] is the number of
\* distinct entries and dict_metadata['removed'] is the wordlist's length
\* minus that number.
C20_UniqueDictionary ==
    (ctl = "start" /\ is_unique) =>
        /\ \A i, j \in 1..DictLen :
              i # j => dictionary.wordlist[i] # dictionary.wordlist[j]
        /\ Range(dictionary.wordlist) = Range(builded_wordlist)
        /\ dict_metadata.len = Cardinality(Range(builded_wordlist))
        /\ dict_metadata.len = DictLen
        /\ dict_metadata.removed =
              Len(builded_wordlist) - Cardinality(Range(builded_wordlist))

\* C20 witness: the wordlist [a, b, a, c, b] was built with uniqueness on
\* into a dictionary of 3 payloads, with removed = 2.
C20_Witness ==
    /\ ctl = "start" /\ is_unique
    /\ builded_wordlist = <<"a", "b", "a", "c", "b">>
    /\ DictLen = 3 /\ dict_metadata.len = 3 /\ dict_metadata.removed = 2

\* the entries of a list in the order of their first occurrence
RECURSIVE FirstOccurrences(_)
FirstOccurrences(list) ==
    IF list = <<>>
      THEN <<>>
      ELSE LET front == FirstOccurrences(SubSeq(list, 1, Len(list) - 1))
               last == list[Len(list)]
           IN  IF last \in Range(front) THEN front ELSE Append(front, last)

\* C21: with uniqueness on, the entries of the built dictionary are in the
\* order of their first occurrence in the built wordlist.
C21_UniqueKeepsOrder ==
    (ctl = "start" /\ is_unique) =>
        dictionary.wordlist = FirstOccurrences(builded_wordlist)

\* C22: from the -e groups given, __build_encoders makes encoders_default of
\* the encoders of the groups of exactly one, and encoders_chain of the
\* groups of more than one, each one chain with its encoders in order; a raw
\* entry then gives as many payloads as there are groups. '-e b64,url' is one
\* chain and one payload, '-e b64 -e url' two default encoders and two
\* payloads.
C22_EncoderGroups ==
    (ctl = "configured" /\ arguments.encoder # <<>>) =>
        LET groups == arguments.encoder
            single == SelectSeq(groups, LAMBDA g : Len(g) = 1)
        IN  /\ encoders[1] = [i \in 1..Len(single) |-> single[i][1]]
            /\ encoders[2] = SelectSeq(groups, LAMBDA g : Len(g) > 1)
            /\ Len(Encode("a b")) = Len(encoders[1]) + Len(encoders[2])
            /\ Len(Encode("a b")) = Len(groups)
            /\ groups = <<(<<"b64", "url">>)>> =>
                  /\ encoders = <<(<<>>), <<(<<"b64", "url">>)>> >>
                  /\ Encode("a b") =
                        <<[raw |-> "a b", encoders |-> <<"b64", "url">>]>>
            /\ groups = << <<"b64">>, <<"url">> >> =>
                  /\ encoders = << <<"b64", "url">>, <<>> >>
                  /\ Len(Encode("a b")) = 2

\* C22 witness: '-e url -e b64,url -e b64' has been built into the default
\* encoders url, b64 and the chain b64,url: three payloads for an entry.
C22_Witness ==
    /\ ctl = "configured"
    /\ arguments.encoder = << <<"url">>, <<"b64", "url">>, <<"b64">> >>
    /\ encoders = << <<"url", "b64">>, <<(<<"b64", "url">>)>> >>
    /\ Len(Encode("a b")) = 3

\* the results a matcher is asked about
MatchResults ==
    [status : MatchStatuses, body_length : 0..MaxLength, rtt : 0..MaxTime]

\* C23: Matcher.match(result) is true iff the status is in the allowed set,
\* no length threshold is set or body_length <= it, and no time threshold is
\* set or RTT <= it. A threshold the user did not give is unset in the
\* Matcher that init() builds, and an unset threshold rejects no result:
\* the verdict does not depend on the body length, or the RTT.
C23_MatchRule ==
    (ctl \in {"prepare_target", "prepared", "stopped"}) =>
        /\ \A result \in MatchResults :
              MatchResult(matcher, result) <=>
                  /\ result.status \in AllowedSet(matcher)
                  /\ \/ matcher.comparator.length = None
                     \/ result.body_length <= matcher.comparator.length[1]
                  /\ \/ matcher.comparator.time = None
                     \/ result.rtt <= matcher.comparator.time[1]
        /\ (ctl = "prepare_target" /\ arguments.match_length = None) =>
              matcher.comparator.length = None
        /\ (ctl = "prepare_target" /\ arguments.match_time = None) =>
              matcher.comparator.time = None
        /\ matcher.comparator.length = None =>
              \A result \in MatchResults, length \in 0..MaxLength :
                  MatchResult(matcher, [result EXCEPT !.body_length = length])
                    = MatchResult(matcher, result)
        /\ matcher.comparator.time = None =>
              \A result \in MatchResults, time \in 0..MaxTime :
                  MatchResult(matcher, [result EXCEPT !.rtt = time])
                    = MatchResult(matcher, result)

\* C23 witness: a prepared matcher with the length threshold 1 and no time
\* threshold matches a 200 of body length 1 however long it took, and
\* rejects a 200 of body length 2.
C23_Witness ==
    /\ ctl = "prepared"
    /\ matcher.comparator = [length |-> Some(1), time |-> None]
    /\ MatchResult(matcher, [status |-> 200, body_length |-> 1,
                             rtt |-> MaxTime])
    /\ ~MatchResult(matcher, [status |-> 200, body_length |-> 2, rtt |-> 0])

\* C24: prepare_target leaves the allowed statuses 200-399,401,403 exactly
\* when the requester is in URL discovery and the user gave no statuses; the
\* statuses the user gave are the matcher's before and after, and without
\* URL discovery the default stays 200-399.
C24_PrepareMatcher ==
    /\ (ctl \in {"prepared", "stopped"}) =>
          AllowedSet(matcher) =
              IF arguments.match_status # None
                THEN AllowedSet(Matcher(arguments.match_status, None, None))
                ELSE IF fuzzing_type \in {"PathFuzzing", "SubdomainFuzzing"}
                       THEN (200..399) \cup {401, 403}
                       ELSE 200..399
    /\ (ctl = "prepare_target" /\ arguments.match_status # None) =>
          /\ AllowedSet(matcher) = arguments.match_status.list
                \cup (IF arguments.match_status.range = None THEN {}
                      ELSE arguments.match_status.range[1][1]
                             ..arguments.match_status.range[1][2])
    /\ (ctl = "prepare_target" /\ arguments.match_status = None) =>
          AllowedSet(matcher) = 200..399

\* C24 witness: path fuzzing with the statuses 404 given by the user has
\* been prepared, and 401 is still not allowed.
C24_Witness ==
    /\ ctl = "prepared" /\ fuzzing_type = "PathFuzzing"
    /\ arguments.match_status = [list |-> {404}, range |-> None]
    /\ AllowedSet(matcher) = {404}

\* no Fuzzer was built and nothing was sent to the target
NothingStarted ==
    /\ method = 0 /\ total_requests = 0 /\ ~running
    /\ \A w \in Workers : wpc[w] = "idle"
    /\ dispatched = <<>> /\ delivered = {}
    /\ \A m \in 1..methods, p \in 1..DictLen : requested[m, p] = 0

\* C25: after init() has raised a configuration error, main() tests no
\* connection, starts no fuzzer and sends no request: the program has ended.
C25_InitErrorIsFatal ==
    init_error # "None" =>
        /\ ctl \in {"exit", "raised"}
        /\ connection = "untested"
        /\ NothingStarted

\* C25 witness: init() raised a ControllerException (no target, or an empty
\* wordlist) and the program has exited without a connection test.
C25_Witness ==
    /\ init_error = "ControllerException" /\ ctl = "exit"
    /\ connection = "untested"

\* C26: when test_connection raises and the user declines, start() is never
\* executed; when the user accepts, check_connection hands over to start()
\* in the very state a successful test does.
C26_ConnectionDecision ==
    /\ [](connection = "declined" =>
            /\ ctl \in {"error_box", "exit"}
            /\ NothingStarted)
    /\ [][(ctl = "check_connection" /\ connection' \in {"ok", "accepted"})
            => /\ ctl' = "start"
               /\ UNCHANGED <<number_of_threads, methods, fuzzing_type,
                              blacklist_action, verbose, builded_wordlist,
                              is_unique, dict_metadata, argvars, init_error,
                              interrupted, footer, stops, matcher, method,
                              ignore_errors, stop_action, total_requests,
                              results, progress, fzvars, wvars, histvars,
                              dictionary, index, proxyvars, unitvars>>]_vars
    /\ [](ctl \in {"start", "prepare_fuzzer", "join", "join_check",
                   "interrupt", "completed", "stopped"}
            => connection \in {"ok", "accepted"})

\* C26 witness: the user accepted to continue after a failed connection
\* test, and start() has fuzzed the target to its end with a result.
C26_Witness ==
    /\ connection = "accepted" /\ ctl = "completed"
    /\ Len(results) > 0

\* C27: a KeyboardInterrupt that meets a running fuzzer calls fuzzer.stop(),
\* the only call of it in the run, and one that meets no running fuzzer
\* calls it not at all; in both cases main() shows the footer and returns
\* normally.
C27_KeyboardInterruptStops ==
    /\ [][(interrupted = "no" /\ interrupted' # "no")
            => IF running
                 THEN stops' = stops + 1 /\ stop_flag' /\ ~running'
                 ELSE stops' = stops /\ stop_flag' = stop_flag]_vars
    /\ [](interrupted = "running" => stops = 1)
    /\ [](interrupted = "not_running" => stops = 0)
    /\ [](interrupted # "no" =>
            /\ ctl \in {"aborted", "test_completed"}
            /\ ctl = "test_completed" => footer)
    /\ (interrupted # "no") ~> (ctl = "test_completed" /\ footer)

\* C27 witness: the KeyboardInterrupt met a running fuzzer with a request in
\* flight; stop() was called once, the footer shown and main() has returned.
C27_Witness ==
    /\ interrupted = "running" /\ stops = 1 /\ stop_flag
    /\ ctl = "test_completed" /\ footer
    /\ in_flight > 0

\* C28: the plugin gets the target's host (metavar TARGET_HOST) or the
\* target's pure URL (metavar TARGET_URL) as its parameter only when no
\* parameter was given and a requester is present; the parameter the user
\* gave is passed as it is, and without a requester, or for another metavar,
\* none is made up.
C28_TargetSubstitution ==
    (ctl = "created" /\ wordlist_obj.kind = "plugin") =>
        LET name == arguments.wordlist[1].name
            params == arguments.wordlist[1].params
        IN  /\ params = UserParams => wordlist_obj.params = UserParams
            /\ (params = NoParams /\ requester # None) =>
                  /\ Metavar(name) = "TARGET_HOST" =>
                        wordlist_obj.params =
                            [kind |-> "host", value |-> <<requester.url.host>>]
                  /\ Metavar(name) = "TARGET_URL" =>
                        wordlist_obj.params =
                            [kind |-> "url",
                             value |-> [requester.url EXCEPT !.mark = "none"]]
            /\ wordlist_obj.params.kind \in {"host", "url"} =>
                  /\ params = NoParams /\ requester # None
                  /\ Metavar(name) \in {"TARGET_HOST", "TARGET_URL"}

\* C28 witness: the TARGET_HOST plugin named without parameter, for a
\* target with the mark in its subdomain, was created with the host.
C28_Witness ==
    /\ ctl = "created" /\ wordlist_obj.raised = "None"
    /\ arguments.wordlist[1] = [name |-> <<"a">>, params |-> NoParams]
    /\ requester # None /\ requester.url.mark = "subdomain"
    /\ wordlist_obj.params = [kind |-> "host", value |-> <<"test-url.com">>]

\* C29: a name that is no plugin gives an inline list when it starts with
\* '[' and ends with ']', a file wordlist otherwise; whatever the branch, a
\* wordlist of length 0 is not returned: creator raises.
C29_ListOrFileNeverEmpty ==
    ctl = "created" =>
        LET name == arguments.wordlist[1].name
        IN  /\ name \notin WordlistPlugins =>
                  /\ wordlist_obj.kind = "list" <=>
                        (Len(name) >= 2 /\ Head(name) = "["
                         /\ name[Len(name)] = "]")
                  /\ wordlist_obj.kind = "file" <=>
                        ~(Len(name) >= 2 /\ Head(name) = "["
                          /\ name[Len(name)] = "]")
            /\ wordlist_obj.len = 0 => wordlist_obj.raised # "None"

\* C29 witness: the name [a] was made into an inline list that is not empty
\* and was returned.
C29_Witness ==
    /\ ctl = "created"
    /\ arguments.wordlist[1].name = <<"[", "a", "]">>
    /\ wordlist_obj.kind = "list" /\ wordlist_obj.raised = "None"
    /\ wordlist_obj.len > 0

\* C30: with a proxy list of k entries and no single proxy, the i-th call
\* to take the rotator's mutex (counting from 0) uses proxy number i mod k
\* of the list, so no position is skipped or repeated; with a single proxy
\* configured every call uses it, whatever the list.
C30_ProxyRoundRobin ==
    (ctl = "requests") =>
        /\ (requester.proxy = None /\ requester.proxies # <<>>) =>
              \A i \in 1..Len(used) :
                  used[i].proxy =
                      requester.proxies[((i - 1) % Len(requester.proxies)) + 1]
        /\ requester.proxy # None =>
              \A i \in 1..Len(used) : used[i].proxy = SingleProxy

\* C30 witness: two workers have made four calls through a list of three
\* proxies, the first two calls by different workers, the fourth call
\* through the first proxy again.
C30_Witness ==
    /\ ctl = "requests" /\ requester.proxy = None
    /\ Len(requester.proxies) = 3 /\ Len(used) = 4
    /\ used[1].worker # used[2].worker
    /\ used[4].proxy = requester.proxies[1]


\* the workers that read is_paused() as false in _wait_callback and have not
\* yet returned from resume()
InWaitSequence ==
    {w \in Workers : wpc[w] \in {"wait_pause", "wait_until_pause",
                                 "wait_sleep", "wait_resume"}}

\* C34: when several workers receive a blacklisted status concurrently, at
\* most one of them is inside the pause / wait_until_pause / sleep / resume
\* sequence of _wait_callback at any time: the is_paused() test followed by
\* pause() never lets two workers both enter.
C34_OneWaiterAtATime == Cardinality(InWaitSequence) <= 1


\* the Results handed to _result_callback with validate true
Validated == {d \in delivered : d.kind = "Result" /\ d.validate}

\* C35: in every verbosity mode and under any interleaving of the result
\* callbacks, self.results holds exactly the Results for which the callback
\* was called with validate true, each of them once, and never one whose
\* validate was false.
C35_ResultsAreTheValidated ==
    /\ \A i \in 1..Len(results) : \E d \in Validated : d.index = results[i]
    /\ \A d \in Validated : \E i \in 1..Len(results) : results[i] = d.index
    /\ \A i, j \in 1..Len(results) : results[i] = results[j] => i = j

\* in verbose mode the result callback of the second Result has appended it
\* with validate true while another worker is inside the result callback
\* with the first Result and validate false
C35_Witness ==
    /\ verbose
    /\ Len(results) = 1
    /\ \E d \in Validated : d.index = results[1]
    /\ \E w \in Workers : /\ wpc[w] = "result_callback"
                           /\ ~Match(wstatus[w])
                           /\ witem[w].index < results[1]


\* StopActionInterrupt was raised by the join loop of prepare_fuzzer and is
\* being handled, or was handled, by start()
Interrupted ==
    \/ ctl = "interrupt"
    \/ ctl = "stopped" /\ stop_action # "None"

\* C36: once a stop action has raised StopActionInterrupt during the pass of
\* one method, no fuzzer is started for a later method (the method stays and
\* the controller never prepares a fuzzer again), fuzzer.stop() is called
\* exactly when the fuzzer is still running, and stop_action stays set.
C36_InterruptEndsAllMethods ==
    [][Interrupted =>
          /\ ctl' \in {"interrupt", "stopped"}
          /\ method' = method
          /\ stop_action' # "None"
          /\ (running' => running)
          /\ (ctl # ctl' /\ running
                => stops' = stops + 1 /\ ~running' /\ stop_flag')
          /\ (ctl = ctl' \/ ~running => stops' = stops)]_vars

\* the pass of the first of two methods was interrupted and the fuzzer
\* stopped: the second method never got a fuzzer
C36_Witness ==
    /\ ctl = "stopped"
    /\ stop_action # "None"
    /\ methods = 2
    /\ method = 1
    /\ stops = 1
    /\ ~running
    /\ \A d \in delivered : d.method = 1


\* the workers inside logger.write
InLoggerWrite == {w \in Workers : lpc[w] = "write"}

\* C31: with request exception callbacks running concurrently on several
\* workers, at most one worker is inside logger.write at any time: the write
\* happens only while the worker holds the controller's lock, and the lock
\* is released once the worker has left the with block.
C31_LoggerWriteIsExclusive ==
    /\ Cardinality(InLoggerWrite) <= 1
    /\ \A w \in Workers :
          /\ lpc[w] \in {"write", "exit_lock"} => lock = w
          /\ lpc[w] \in {"idle", "with_lock"} => lock # w
    /\ (\A w \in Workers : lpc[w] \in {"idle", "with_lock"}) => lock = 0

\* one worker is inside logger.write, the other waits for the lock, and an
\* earlier entry was written under the lock that was released since
C31_Witness ==
    /\ ignore_errors
    /\ \E w, v \in Workers :
          /\ lpc[w] = "write" /\ lock = w
          /\ lpc[v] = "with_lock"
    /\ Len(logger) >= 1


\* the statuses the Matcher allows: the union of the list and the closed range
AllowedOf(allowed) ==
    Elements(allowed.List)
    \cup (IF allowed.Range = <<>> THEN {}
                                  ELSE allowed.Range[1]..allowed.Range[2])

\* the codes an item of the argument lists: the code, or every code between
\* the two bounds of the range, whichever order they are given in
Listed(status) ==
    IF Len(status) = 1 THEN {status[1]}
    ELSE {c \in 100..599 :
            \/ status[1] <= c /\ c <= status[2]
            \/ status[2] <= c /\ c <= status[1]}

\* C37: parsing an allowed-status argument of comma separated codes and
\* LO-HI ranges yields an allowed set that holds every listed code and every
\* code inside every listed range, reversed bounds swapped, and nothing else
\* (200 apart, when the user asked for it at the prompt).
C37_AllowedIsWhatIsListed ==
    allowed_status # None /\ include_200 # "yes" =>
        AllowedOf(allowed_status[1])
          = UNION {Listed(argv.Xc[1][i]) : i \in 1..Len(argv.Xc[1])}


\* the header lines of a raw file: what follows the request line up to the
\* blank line, or to the end of the file when there is none
HeaderBlock(file) ==
    LET lines == Tail(file)
        blanks == {i \in 1..Len(lines) : lines[i] = BlankLine}
    IN  IF blanks = {} THEN lines
        ELSE SubSeq(lines, 1, (CHOOSE i \in blanks : \A j \in blanks : i <= j) - 1)

\* what follows the blank line of a raw file
AfterBlank(file) ==
    SubSeq(Tail(file), Len(HeaderBlock(file)) + 2, Len(file) - 1)

\* C38: parsing a raw HTTP request puts every header line that precedes the
\* blank line, or the end of the file when there is neither blank line nor
\* body, into the header map with its key and value, consumes the blank
\* line, and leaves the body line as the next unread element.
C38_HeaderBlockIsRead ==
    ctl # "get_default_request" /\ Len(HeaderBlock(argv.r[1])) > 0 =>
        /\ http_header # None
        /\ http_header[1] = Elements(HeaderBlock(argv.r[1]))
        /\ header_list = AfterBlank(argv.r[1])


\* the string of a target URL
UrlString(target) ==
    <<target.scheme>>
    \o (IF target.mark = "subdomain" THEN <<FuzzingMark, ".">> ELSE <<>>)
    \o <<target.host, target.path>>
    \o (IF target.mark = "path" THEN <<FuzzingMark>> ELSE <<>>)

\* C32: get_pure_url returns a URL with no fuzzing mark left; a URL without
\* mark comes back unchanged, a mark in the path is removed, a mark in the
\* host is removed with the dot next to it (https://$.test-url.com/ gives
\* https://test-url.com/), and a second application changes nothing.
C32_PureUrl ==
    /\ \A i \in 1..Len(pure_url) : FuzzingMark \notin Elements(pure_url[i])
    /\ Len(pure_url) >= 1 =>
          /\ FuzzingMark \notin Elements(test_url) => pure_url[1] = test_url
          /\ test_url = <<"https://", "test-url.com", "/", FuzzingMark>>
                => pure_url[1] = <<"https://", "test-url.com", "/">>
          /\ test_url
               = <<"https://", FuzzingMark, ".", "test-url.com", "/">>
                => pure_url[1] = <<"https://", "test-url.com", "/">>
          /\ \A target \in TargetUrls :
                test_url = UrlString(target)
                  => pure_url[1] = UrlString(GetPureUrl(target))
    /\ Len(pure_url) >= 2 => pure_url[2] = pure_url[1]

\* get_pure_url was applied twice to https://$.test-url.com/
C32_Witness ==
    /\ test_url = <<"https://", FuzzingMark, ".", "test-url.com", "/">>
    /\ Len(pure_url) = 2
    /\ pure_url[1] # test_url


\* C33: with empty prefix and suffix lists, no case flag and no encoders
\* configured in the Payloader, each raw wordlist entry yields exactly one
\* final payload, and it equals the raw entry.
C33_PlainPayloadIsRaw ==
    (/\ payloads # None
     /\ arguments.prefix = <<>> /\ arguments.suffix = <<>>
     /\ ~arguments.lowercase /\ ~arguments.uppercase /\ ~arguments.capitalize
     /\ arguments.encoder = <<>>)
        => payloads[1].final = <<payloads[1].raw>>

\* the Payloader configured with nothing was asked for the payloads of the
\* entry Ab
C33_Witness ==
    /\ payloads # None
    /\ payloader = NoPayloader
    /\ encoders = NoEncoders
    /\ arguments.encoder = <<>>
    /\ payloads[1].raw = <<"A", "b">>
    /\ Len(payloads[1].final) = 1

====
